---------------------------- MODULE Spec2Model ----------------------------
(***************************************************************************)
(* A model of terraform-provider-azurerm's resource-ID parsers and         *)
(* formatters, of the virtual machine scale set expand and flatten         *)
(* functions, and of the API clients it vendors.                           *)
(*                                                                         *)
(* The state is one call: the operation, its arguments and what it         *)
(* returned.  The initial states draw the operation and its arguments from *)
(* bounded sets.  A pure function is applied by one action; an operation   *)
(* of an API client goes through its stages, one action each.              *)
(*                                                                         *)
(* A Go string is a sequence of one-character strings, so that splitting,  *)
(* joining, formatting and case folding are computed, not assumed.  A Go   *)
(* pointer is Nil or Ptr(v); an error is its message, or NoError for nil.  *)
(***************************************************************************)
EXTENDS Integers, Sequences, FiniteSets, TLC

VARIABLES
    op,      \* the operation called
    args,    \* its arguments
    ret,     \* what it returned, once it has
    pc       \* "call" before the operation has run, "return" after, and
             \* the stage an operation of an API client is about to run

vars == <<op, args, ret, pc>>

\* A pointer is nil or points at a value.
Nil == <<>>
Ptr(v) == <<v>>
Deref(p) == p[1]

\* A mutant of From: the zero value, whatever is pointed at.
FromZero(p, zero) == zero

\* pointer.From: the value pointed at, or the zero value of its type
From(p, zero) == IF p # Nil THEN Deref(p) ELSE zero

\* A call about to be made: nothing returned yet.
Calling ==
    /\ pc = "call"
    /\ ret = Nil

\* The call returns r.
Returns(o, r) ==
    /\ pc = "call"
    /\ op = o
    /\ ret' = r
    /\ pc' = "return"
    /\ UNCHANGED <<op, args>>

\* The call of operation o has returned.
Returned(o) == pc = "return" /\ op = o

-----------------------------------------------------------------------------
(***************************************************************************)
(* Strings.                                                                *)
(***************************************************************************)

LowerLetters == <<"a","b","c","d","e","f","g","h","i","j","k","l","m","n","o","p","q","r","s","t","u","v","w","x","y","z">>
UpperLetters == <<"A","B","C","D","E","F","G","H","I","J","K","L","M","N","O","P","Q","R","S","T","U","V","W","X","Y","Z">>

IndexOf(c, letters) ==
    IF \E i \in DOMAIN letters : letters[i] = c
    THEN CHOOSE i \in DOMAIN letters : letters[i] = c
    ELSE 0

\* unicode.ToLower / unicode.ToUpper on one character
ToLowerChar(c) == IF IndexOf(c, UpperLetters) > 0 THEN LowerLetters[IndexOf(c, UpperLetters)] ELSE c
ToUpperChar(c) == IF IndexOf(c, LowerLetters) > 0 THEN UpperLetters[IndexOf(c, LowerLetters)] ELSE c

\* strings.ToLower / strings.ToUpper
ToLower(s) == [i \in DOMAIN s |-> ToLowerChar(s[i])]
ToUpper(s) == [i \in DOMAIN s |-> ToUpperChar(s[i])]

\* strings.EqualFold
EqualFold(a, b) == ToLower(a) = ToLower(b)

\* strings.Split(s, "/"): the pieces between the slashes, one more than
\* there are slashes
Split(s) ==
    LET slashes == {i \in 1..Len(s) : s[i] = "/"}
        n == Cardinality(slashes)
        \* where the k-th slash is; the ends of the string for k = 0 and k = n + 1
        At(k) == IF k = 0 THEN 0
                 ELSE IF k = n + 1 THEN Len(s) + 1
                 ELSE CHOOSE i \in slashes : Cardinality({j \in slashes : j <= i}) = k
    IN  [k \in 1..(n + 1) |-> SubSeq(s, At(k - 1) + 1, At(k) - 1)]

\* What fmt prints for a verb that has no argument left.
MissingArg == <<"%", "!", "s", "(", "M", "I", "S", "S", "I", "N", "G", ")">>

\* A mutant of Sprintf: the argument list does not advance, so every %s
\* prints the first argument.
RECURSIVE SprintfFirstArg(_, _)
SprintfFirstArg(f, a) ==
    LET verbs == {i \in 1..(Len(f) - 1) : f[i] = "%" /\ f[i + 1] = "s"}
    IN  IF verbs = {} THEN f
        ELSE LET i == CHOOSE v \in verbs : \A w \in verbs : v <= w
             IN  SubSeq(f, 1, i - 1)
                 \o (IF a # <<>> THEN Head(a) ELSE MissingArg)
                 \o SprintfFirstArg(SubSeq(f, i + 2, Len(f)), a)

\* fmt.Sprintf with %s verbs only: each %s is replaced by the next argument
RECURSIVE Sprintf(_, _)
Sprintf(f, a) ==
    LET verbs == {i \in 1..(Len(f) - 1) : f[i] = "%" /\ f[i + 1] = "s"}
    IN  IF verbs = {} THEN f
        ELSE LET i == CHOOSE v \in verbs : \A w \in verbs : v <= w
             IN  SubSeq(f, 1, i - 1)
                 \o (IF a # <<>> THEN Head(a) ELSE MissingArg)
                 \o Sprintf(SubSeq(f, i + 2, Len(f)), IF a # <<>> THEN Tail(a) ELSE a)

-----------------------------------------------------------------------------
(***************************************************************************)
(* Resource IDs.  The parse package's test files (data_factory_test.go and *)
(* its siblings for ExpressRoutePort and BlobInventoryPolicy) are present; *)
(* the parsers and formatters they exercise are modelled from the          *)
(* specification and from those tests' cases.                              *)
(***************************************************************************)

K_subscriptions == <<"s","u","b","s","c","r","i","p","t","i","o","n","s">>
K_resourceGroups == <<"r","e","s","o","u","r","c","e","G","r","o","u","p","s">>
K_providers == <<"p","r","o","v","i","d","e","r","s">>
NS_DataFactory == <<"M","i","c","r","o","s","o","f","t",".","D","a","t","a","F","a","c","t","o","r","y">>
K_factories == <<"f","a","c","t","o","r","i","e","s">>
NS_Network == <<"M","i","c","r","o","s","o","f","t",".","N","e","t","w","o","r","k">>
K_expressRoutePorts == <<"e","x","p","r","e","s","s","R","o","u","t","e","P","o","r","t","s">>
NS_Storage == <<"M","i","c","r","o","s","o","f","t",".","S","t","o","r","a","g","e">>
K_storageAccounts == <<"s","t","o","r","a","g","e","A","c","c","o","u","n","t","s">>
K_inventoryPolicies == <<"i","n","v","e","n","t","o","r","y","P","o","l","i","c","i","e","s">>

\* The kinds of path segment: a fixed key, a resource-type key (also fixed,
\* and the one the insensitive parser compares without regard to case), and a
\* value supplied by the caller.
Static(text) == [kind |-> "static", text |-> text]
TypeKey(text) == [kind |-> "type", text |-> text]
Value(field) == [kind |-> "value", text |-> field]

\* /subscriptions/{}/resourceGroups/{}/providers/Microsoft.DataFactory/factories/{}
DataFactorySegments ==
    << Static(K_subscriptions), Value("SubscriptionId"),
       Static(K_resourceGroups), Value("ResourceGroup"),
       Static(K_providers), Static(NS_DataFactory),
       TypeKey(K_factories), Value("FactoryName") >>

\* /subscriptions/{}/resourceGroups/{}/providers/Microsoft.Network/expressRoutePorts/{}
ExpressRoutePortSegments ==
    << Static(K_subscriptions), Value("SubscriptionId"),
       Static(K_resourceGroups), Value("ResourceGroup"),
       Static(K_providers), Static(NS_Network),
       TypeKey(K_expressRoutePorts), Value("Name") >>

\* /subscriptions/{}/resourceGroups/{}/providers/Microsoft.Storage/storageAccounts/{}/inventoryPolicies/{}
BlobInventoryPolicySegments ==
    << Static(K_subscriptions), Value("SubscriptionId"),
       Static(K_resourceGroups), Value("ResourceGroup"),
       Static(K_providers), Static(NS_Storage),
       TypeKey(K_storageAccounts), Value("StorageAccountName"),
       TypeKey(K_inventoryPolicies), Value("InventoryPolicyName") >>

\* The format string of ID(): "/<key>" for a fixed segment, "/%s" for a value.
RECURSIVE FmtStringFrom(_, _)
FmtStringFrom(segments, i) ==
    IF i > Len(segments) THEN <<>>
    ELSE <<"/">> \o (IF segments[i].kind = "value" THEN <<"%", "s">> ELSE segments[i].text)
         \o FmtStringFrom(segments, i + 1)

FmtString(segments) == FmtStringFrom(segments, 1)

\* The errors of a parser; NoError is Go's nil error.
NoError == "nil"

\* A mutant of MatchSegment: an empty value passes.
MatchSegmentAcceptsEmpty(piece, seg, insensitively) ==
    IF seg.kind = "value" THEN NoError
    ELSE IF piece = seg.text \/ (insensitively /\ seg.kind = "type" /\ EqualFold(piece, seg.text))
    THEN NoError
    ELSE "unexpected key"

\* A mutant of MatchSegment: keys are compared without regard to case by
\* every parser.
MatchSegmentFoldsAlways(piece, seg, insensitively) ==
    IF seg.kind = "value"
    THEN IF piece = <<>> THEN "missing value" ELSE NoError
    ELSE IF EqualFold(piece, seg.text) THEN NoError ELSE "unexpected key"

\* A mutant of MatchSegment: the insensitive parser compares the lower-cased
\* piece with the key as written.
MatchSegmentFoldsOneSide(piece, seg, insensitively) ==
    IF seg.kind = "value"
    THEN IF piece = <<>> THEN "missing value" ELSE NoError
    ELSE IF piece = seg.text \/ (insensitively /\ seg.kind = "type" /\ ToLower(piece) = seg.text)
    THEN NoError
    ELSE "unexpected key"

\* One piece of the input against the segment it answers: a value must not
\* be empty, a key must be the segment's key, letter for letter; the
\* insensitive parser accepts a resource-type key in any letter case.
MatchSegment(piece, seg, insensitively) ==
    IF seg.kind = "value"
    THEN IF piece = <<>> THEN "missing value" ELSE NoError
    ELSE IF piece = seg.text \/ (insensitively /\ seg.kind = "type" /\ EqualFold(piece, seg.text))
    THEN NoError
    ELSE "unexpected key"

\* The walk of a parser over the pieces of the input: piece i + 1 answers
\* segment i (piece 1 is what precedes the leading slash).  It returns the
\* first error, or the values met in order.
RECURSIVE WalkSegments(_, _, _, _, _)
WalkSegments(pieces, segments, insensitively, i, values) ==
    IF i > Len(segments)
    THEN IF Len(pieces) > Len(segments) + 1
         THEN [err |-> "unexpected segment", values |-> <<>>]
         ELSE [err |-> NoError, values |-> values]
    ELSE IF i + 1 > Len(pieces)
    THEN [err |-> "missing segment", values |-> <<>>]
    ELSE LET err == MatchSegment(pieces[i + 1], segments[i], insensitively)
         IN  IF err # NoError THEN [err |-> err, values |-> <<>>]
             ELSE WalkSegments(pieces, segments, insensitively, i + 1,
                               IF segments[i].kind = "value"
                               THEN Append(values, pieces[i + 1]) ELSE values)

\* A mutant of ParseResourceID: a trailing slash is trimmed before the split.
ParseResourceIDTrimmed(input, segments, insensitively) ==
    LET trimmed == IF input # <<>> /\ input[Len(input)] = "/"
                   THEN SubSeq(input, 1, Len(input) - 1) ELSE input
        pieces == Split(trimmed)
    IN  IF trimmed = <<>> THEN [err |-> "empty", values |-> <<>>]
        ELSE IF pieces[1] # <<>> THEN [err |-> "no leading slash", values |-> <<>>]
        ELSE WalkSegments(pieces, segments, insensitively, 1, <<>>)

\* A mutant of ParseResourceID: the input is lower-cased before the split.
ParseResourceIDLowered(input, segments, insensitively) ==
    LET pieces == Split(ToLower(input))
    IN  IF input = <<>> THEN [err |-> "empty", values |-> <<>>]
        ELSE IF pieces[1] # <<>> THEN [err |-> "no leading slash", values |-> <<>>]
        ELSE WalkSegments(pieces, [i \in DOMAIN segments |->
                                      [segments[i] EXCEPT !.text = IF segments[i].kind = "value"
                                                                   THEN @ ELSE ToLower(@)]],
                          insensitively, 1, <<>>)

\* Parsing an input against the segments of an ID type.
ParseResourceID(input, segments, insensitively) ==
    LET pieces == Split(input)
    IN  IF input = <<>> THEN [err |-> "empty", values |-> <<>>]
        ELSE IF pieces[1] # <<>> THEN [err |-> "no leading slash", values |-> <<>>]
        ELSE WalkSegments(pieces, segments, insensitively, 1, <<>>)

\* The value a failed parse returns: a nil pointer and the error.
ParseFailed(err) == [err |-> err, id |-> Nil]

NewDataFactoryID(subscriptionId, resourceGroup, factoryName) ==
    [SubscriptionId |-> subscriptionId, ResourceGroup |-> resourceGroup, FactoryName |-> factoryName]

DataFactoryId_ID(id) ==
    Sprintf(FmtString(DataFactorySegments), <<id.SubscriptionId, id.ResourceGroup, id.FactoryName>>)

DataFactoryID(input) ==
    LET p == ParseResourceID(input, DataFactorySegments, FALSE)
    IN  IF p.err # NoError THEN ParseFailed(p.err)
        ELSE [err |-> NoError, id |-> Ptr(NewDataFactoryID(p.values[1], p.values[2], p.values[3]))]

NewExpressRoutePortID(subscriptionId, resourceGroup, name) ==
    [SubscriptionId |-> subscriptionId, ResourceGroup |-> resourceGroup, Name |-> name]

ExpressRoutePortId_ID(id) ==
    Sprintf(FmtString(ExpressRoutePortSegments), <<id.SubscriptionId, id.ResourceGroup, id.Name>>)

ExpressRoutePortID(input) ==
    LET p == ParseResourceID(input, ExpressRoutePortSegments, FALSE)
    IN  IF p.err # NoError THEN ParseFailed(p.err)
        ELSE [err |-> NoError, id |-> Ptr(NewExpressRoutePortID(p.values[1], p.values[2], p.values[3]))]

ExpressRoutePortIDInsensitively(input) ==
    LET p == ParseResourceID(input, ExpressRoutePortSegments, TRUE)
    IN  IF p.err # NoError THEN ParseFailed(p.err)
        ELSE [err |-> NoError, id |-> Ptr(NewExpressRoutePortID(p.values[1], p.values[2], p.values[3]))]

NewBlobInventoryPolicyID(subscriptionId, resourceGroup, storageAccountName, inventoryPolicyName) ==
    [SubscriptionId |-> subscriptionId, ResourceGroup |-> resourceGroup,
     StorageAccountName |-> storageAccountName, InventoryPolicyName |-> inventoryPolicyName]

BlobInventoryPolicyId_ID(id) ==
    Sprintf(FmtString(BlobInventoryPolicySegments),
            <<id.SubscriptionId, id.ResourceGroup, id.StorageAccountName, id.InventoryPolicyName>>)

BlobInventoryPolicyID(input) ==
    LET p == ParseResourceID(input, BlobInventoryPolicySegments, FALSE)
    IN  IF p.err # NoError THEN ParseFailed(p.err)
        ELSE [err |-> NoError,
              id |-> Ptr(NewBlobInventoryPolicyID(p.values[1], p.values[2], p.values[3], p.values[4]))]

-----------------------------------------------------------------------------
(***************************************************************************)
(* The calls of the resource-ID functions.                                 *)
(***************************************************************************)

\* How many segments beyond a complete ID an input may carry.
MaxExtraSegments == 1

\* In how many segments an input may depart from the canonical ID (the
\* fully upper-cased ID of the tests is an input besides).
MaxDeviations == 1

\* ExPrEsSrOuTePoRtS
AlternateCase(s) == [i \in DOMAIN s |-> IF i % 2 = 1 THEN ToUpperChar(s[i]) ELSE ToLowerChar(s[i])]

\* The values of the tests' valid IDs.
SampleValue ==
    [SubscriptionId |-> <<"1","2","3","4","5","6","7","8","-","1","2","3","4","-","9","8","7","6","-","4","5","6","3","-","1","2","3","4","5","6","7","8","9","0","1","2">>,
     ResourceGroup |-> <<"r","e","s","G","r","o","u","p","1">>,
     FactoryName |-> <<"f","a","c","N","a","m","e","1">>,
     Name |-> <<"p","o","r","t","1">>,
     StorageAccountName |-> <<"s","t","o","r","a","g","e","A","c","c","o","u","n","t","1">>,
     InventoryPolicyName |-> <<"i","n","v","e","n","t","o","r","y","P","o","l","i","c","y","1">>]

\* A segment as the tests' valid IDs write it.
Canonical(seg) == IF seg.kind = "value" THEN SampleValue[seg.text] ELSE seg.text

\* The other ways an input writes a segment: a key in another letter case,
\* a value upper-cased or left out.
Deviations(seg) ==
    IF seg.kind = "value"
    THEN {ToUpper(SampleValue[seg.text]), <<>>} \ {SampleValue[seg.text]}
    ELSE IF seg.kind = "type"
    THEN {ToUpper(seg.text), ToLower(seg.text), AlternateCase(seg.text)}
    ELSE {ToUpper(seg.text)}

ExtraPiece == <<"e","x","t","r","a">>

\* The piece lists of n segments with at most d deviations: a prefix of the
\* ID's segments, or all of them followed by extra pieces.
RECURSIVE PieceLists(_, _, _)
PieceLists(segments, n, d) ==
    IF n = 0 THEN {<<>>}
    ELSE IF n > Len(segments)
    THEN {Append(p, ExtraPiece) : p \in PieceLists(segments, n - 1, d)}
    ELSE {Append(p, Canonical(segments[n])) : p \in PieceLists(segments, n - 1, d)}
         \cup (IF d = 0 THEN {}
               ELSE {Append(p, w) : p \in PieceLists(segments, n - 1, d - 1),
                                    w \in Deviations(segments[n])})

\* The pieces of the upper-cased ID of the tests.
UpperCased(segments) == [i \in DOMAIN segments |-> ToUpper(Canonical(segments[i]))]

\* "/" before every piece
RECURSIVE PathOf(_)
PathOf(pieces) ==
    IF pieces = <<>> THEN <<>> ELSE <<"/">> \o Head(pieces) \o PathOf(Tail(pieces))

\* The inputs given to a parser: every such path, as it is, with a trailing
\* slash, and without its leading slash.
IDInputs(segments) ==
    UNION { {PathOf(p), PathOf(p) \o <<"/">>} \cup (IF p = <<>> THEN {} ELSE {Tail(PathOf(p))}) :
            p \in {UpperCased(segments)}
                  \cup UNION {PieceLists(segments, n, MaxDeviations) :
                              n \in 0..(Len(segments) + MaxExtraSegments)} }

\* The values given to a formatter: the tests' value, and values with other
\* characters, with a slash, and empty.
FormatValues(field) ==
    {SampleValue[field], <<"A", ".", "b", "-", "1">>, <<"x", "/", "y">>, <<>>}

InitID ==
    /\ Calling
    /\ \/ op = "DataFactoryID" /\ args \in IDInputs(DataFactorySegments)
       \/ op = "ExpressRoutePortID" /\ args \in IDInputs(ExpressRoutePortSegments)
       \/ op = "ExpressRoutePortIDInsensitively" /\ args \in IDInputs(ExpressRoutePortSegments)
       \/ op = "BlobInventoryPolicyID" /\ args \in IDInputs(BlobInventoryPolicySegments)
       \/ op = "NewDataFactoryID"
          /\ args \in FormatValues("SubscriptionId") \X FormatValues("ResourceGroup") \X FormatValues("FactoryName")
       \/ op = "NewExpressRoutePortID"
          /\ args \in FormatValues("SubscriptionId") \X FormatValues("ResourceGroup") \X FormatValues("Name")
       \/ op = "NewBlobInventoryPolicyID"
          /\ args \in FormatValues("SubscriptionId") \X FormatValues("ResourceGroup")
                      \X FormatValues("StorageAccountName") \X FormatValues("InventoryPolicyName")

CallDataFactoryID == Returns("DataFactoryID", DataFactoryID(args))

CallExpressRoutePortID == Returns("ExpressRoutePortID", ExpressRoutePortID(args))

CallExpressRoutePortIDInsensitively ==
    Returns("ExpressRoutePortIDInsensitively", ExpressRoutePortIDInsensitively(args))

CallBlobInventoryPolicyID == Returns("BlobInventoryPolicyID", BlobInventoryPolicyID(args))

\* NewDataFactoryID(...).ID()
CallNewDataFactoryID ==
    Returns("NewDataFactoryID", DataFactoryId_ID(NewDataFactoryID(args[1], args[2], args[3])))

CallNewExpressRoutePortID ==
    Returns("NewExpressRoutePortID", ExpressRoutePortId_ID(NewExpressRoutePortID(args[1], args[2], args[3])))

CallNewBlobInventoryPolicyID ==
    Returns("NewBlobInventoryPolicyID",
            BlobInventoryPolicyId_ID(NewBlobInventoryPolicyID(args[1], args[2], args[3], args[4])))

NextID ==
    \/ CallDataFactoryID
    \/ CallExpressRoutePortID
    \/ CallExpressRoutePortIDInsensitively
    \/ CallBlobInventoryPolicyID
    \/ CallNewDataFactoryID
    \/ CallNewExpressRoutePortID
    \/ CallNewBlobInventoryPolicyID

SpecID == InitID /\ [][NextID]_vars

-----------------------------------------------------------------------------
(***************************************************************************)
(* Properties of the resource-ID functions, checked under SpecID.          *)
(***************************************************************************)

\* The path components of an input: its pieces without the empty piece
\* that precedes a leading slash.
Components(input) ==
    LET pieces == Split(input)
    IN  IF Head(pieces) = <<>> THEN Tail(pieces) ELSE pieces

\* A required segment, or the value that follows a key, is missing.
MissingSegment(input, segments) ==
    \E i \in 1..Len(segments) :
        i > Len(Components(input)) \/ Components(input)[i] = <<>>

\* The input has every segment, and some key of it is written in another
\* letter case than the canonical one.
MiscasedKey(input, segments) ==
    /\ Len(Components(input)) = Len(segments)
    /\ \E i \in 1..Len(segments) :
          /\ segments[i].kind # "value"
          /\ Components(input)[i] # segments[i].text
          /\ EqualFold(Components(input)[i], segments[i].text)

\* s ends in suffix
HasSuffix(s, suffix) ==
    Len(s) >= Len(suffix) /\ SubSeq(s, Len(s) - Len(suffix) + 1, Len(s)) = suffix

Slash == <<"/">>

\* A value a formatter is meant for: not empty, no slash in it.
PlainValue(v) == v # <<>> /\ \A i \in DOMAIN v : v[i] # "/"

\* C1: for each case-sensitive parser, an input the parser accepts is
\* returned character for character by ID() on the parsed value.
C1_ParseThenFormat ==
    /\ (Returned("DataFactoryID") /\ ret.err = NoError) => DataFactoryId_ID(Deref(ret.id)) = args
    /\ (Returned("ExpressRoutePortID") /\ ret.err = NoError) => ExpressRoutePortId_ID(Deref(ret.id)) = args
    /\ (Returned("BlobInventoryPolicyID") /\ ret.err = NoError) => BlobInventoryPolicyId_ID(Deref(ret.id)) = args

\* An accepted input that is not the tests' valid ID: its resource group is
\* written in upper case.
C1_Witness ==
    /\ Returned("BlobInventoryPolicyID")
    /\ ret.err = NoError
    /\ Deref(ret.id).ResourceGroup = ToUpper(SampleValue.ResourceGroup)
    /\ BlobInventoryPolicyId_ID(Deref(ret.id)) = args

\* C2: every parser returns an error, and no ID, for an input in which a
\* required segment or the value after a key is missing; the empty string,
\* "/" and the prefixes of a valid ID are such inputs.
C2_MissingSegmentRejected ==
    /\ (Returned("DataFactoryID") /\ MissingSegment(args, DataFactorySegments))
          => (ret.err # NoError /\ ret.id = Nil)
    /\ (Returned("ExpressRoutePortID") /\ MissingSegment(args, ExpressRoutePortSegments))
          => (ret.err # NoError /\ ret.id = Nil)
    /\ (Returned("ExpressRoutePortIDInsensitively") /\ MissingSegment(args, ExpressRoutePortSegments))
          => (ret.err # NoError /\ ret.id = Nil)
    /\ (Returned("BlobInventoryPolicyID") /\ MissingSegment(args, BlobInventoryPolicySegments))
          => (ret.err # NoError /\ ret.id = Nil)

\* The insensitive parser was given a valid ID cut before the name's value:
\* ".../expressRoutePorts/".
C2_Witness ==
    /\ Returned("ExpressRoutePortIDInsensitively")
    /\ Len(Components(args)) = Len(ExpressRoutePortSegments)
    /\ \A i \in 1..(Len(ExpressRoutePortSegments) - 1) :
          Components(args)[i] = Canonical(ExpressRoutePortSegments[i])
    /\ Components(args)[Len(ExpressRoutePortSegments)] = <<>>
    /\ ret.err # NoError

\* C3: a case-sensitive parser rejects a complete ID one of whose keys is
\* not in its canonical letter case, and so the upper-cased valid ID.
C3_MiscasedKeyRejected ==
    /\ (Returned("DataFactoryID") /\ MiscasedKey(args, DataFactorySegments))
          => (ret.err # NoError /\ ret.id = Nil)
    /\ (Returned("ExpressRoutePortID") /\ MiscasedKey(args, ExpressRoutePortSegments))
          => (ret.err # NoError /\ ret.id = Nil)
    /\ (Returned("BlobInventoryPolicyID") /\ MiscasedKey(args, BlobInventoryPolicySegments))
          => (ret.err # NoError /\ ret.id = Nil)
    /\ (Returned("DataFactoryID") /\ args = PathOf(UpperCased(DataFactorySegments)))
          => ret.err # NoError
    /\ (Returned("ExpressRoutePortID") /\ args = PathOf(UpperCased(ExpressRoutePortSegments)))
          => ret.err # NoError
    /\ (Returned("BlobInventoryPolicyID") /\ args = PathOf(UpperCased(BlobInventoryPolicySegments)))
          => ret.err # NoError

\* A case-sensitive parser was given a complete ID whose only flaw is the
\* letter case of its resource-type key, and returned an error.
C3_Witness ==
    /\ Returned("ExpressRoutePortID")
    /\ args = PathOf([i \in DOMAIN ExpressRoutePortSegments |->
                        IF ExpressRoutePortSegments[i].kind = "type"
                        THEN ToLower(K_expressRoutePorts)
                        ELSE Canonical(ExpressRoutePortSegments[i])])
    /\ ret.err # NoError

\* C4: the formatters return the canonical path with the values inserted
\* unchanged.
C4_FormatCanonical ==
    /\ Returned("NewDataFactoryID") =>
          ret = Slash \o K_subscriptions \o Slash \o args[1]
                \o Slash \o K_resourceGroups \o Slash \o args[2]
                \o Slash \o K_providers \o Slash \o NS_DataFactory
                \o Slash \o K_factories \o Slash \o args[3]
    /\ Returned("NewExpressRoutePortID") =>
          HasSuffix(ret, Slash \o K_providers \o Slash \o NS_Network
                         \o Slash \o K_expressRoutePorts \o Slash \o args[3])
    /\ Returned("NewBlobInventoryPolicyID") =>
          HasSuffix(ret, Slash \o K_providers \o Slash \o NS_Storage
                         \o Slash \o K_storageAccounts \o Slash \o args[3]
                         \o Slash \o K_inventoryPolicies \o Slash \o args[4])

\* The formatter test's call: NewBlobInventoryPolicyID with the tests'
\* four values returned the tests' valid ID.
C4_Witness ==
    /\ Returned("NewBlobInventoryPolicyID")
    /\ args = <<SampleValue.SubscriptionId, SampleValue.ResourceGroup,
                SampleValue.StorageAccountName, SampleValue.InventoryPolicyName>>
    /\ ret = PathOf([i \in DOMAIN BlobInventoryPolicySegments |->
                       Canonical(BlobInventoryPolicySegments[i])])

\* C5: for values that are not empty and hold no slash, the matching parser
\* accepts what the formatter returns and gives back the values exactly.
C5_FormatThenParse ==
    /\ (Returned("NewDataFactoryID") /\ \A i \in 1..3 : PlainValue(args[i])) =>
          DataFactoryID(ret) = [err |-> NoError,
                                id |-> Ptr([SubscriptionId |-> args[1], ResourceGroup |-> args[2],
                                        FactoryName |-> args[3]])]
    /\ (Returned("NewExpressRoutePortID") /\ \A i \in 1..3 : PlainValue(args[i])) =>
          ExpressRoutePortID(ret) = [err |-> NoError,
                                     id |-> Ptr([SubscriptionId |-> args[1], ResourceGroup |-> args[2],
                                             Name |-> args[3]])]
    /\ (Returned("NewBlobInventoryPolicyID") /\ \A i \in 1..4 : PlainValue(args[i])) =>
          BlobInventoryPolicyID(ret) = [err |-> NoError,
                                        id |-> Ptr([SubscriptionId |-> args[1], ResourceGroup |-> args[2],
                                                StorageAccountName |-> args[3],
                                                InventoryPolicyName |-> args[4]])]

\* A formatter was called with plain values that are not all the tests'
\* values, and the parser gives them back.
C5_Witness ==
    /\ Returned("NewDataFactoryID")
    /\ \A i \in 1..3 : PlainValue(args[i])
    /\ args[2] # SampleValue.ResourceGroup
    /\ DataFactoryID(ret).err = NoError
    /\ Deref(DataFactoryID(ret).id).ResourceGroup = args[2]

\* The complete IDs of an express route port whose resource-type key is in
\* any letter case.
ExpressRoutePortAnyCase(input) ==
    /\ Head(Split(input)) = <<>>
    /\ Len(Components(input)) = Len(ExpressRoutePortSegments)
    /\ \A i \in 1..Len(ExpressRoutePortSegments) :
          LET seg == ExpressRoutePortSegments[i]
              c == Components(input)[i]
          IN  /\ seg.kind = "static" => c = seg.text
              /\ seg.kind = "type" => EqualFold(c, seg.text)
              /\ seg.kind = "value" => c # <<>>

\* C6: ExpressRoutePortIDInsensitively accepts a complete ID whose
\* resource-type key is in any letter case and returns the three values as
\* the input writes them; where ExpressRoutePortID accepts, both return the
\* same.
C6_InsensitiveParse ==
    Returned("ExpressRoutePortIDInsensitively") =>
        /\ ExpressRoutePortAnyCase(args) =>
              /\ ret.err = NoError
              /\ ret.id = Ptr([SubscriptionId |-> Components(args)[2],
                               ResourceGroup |-> Components(args)[4],
                               Name |-> Components(args)[8]])
        /\ ExpressRoutePortID(args).err = NoError => ret = ExpressRoutePortID(args)

\* The test's mixed-case input, ".../ExPrEsSrOuTePoRtS/port1", was accepted.
C6_Witness ==
    /\ Returned("ExpressRoutePortIDInsensitively")
    /\ Len(Components(args)) = Len(ExpressRoutePortSegments)
    /\ Components(args)[7] = AlternateCase(K_expressRoutePorts)
    /\ ret.err = NoError
    /\ Deref(ret.id).Name = SampleValue.Name
    /\ ExpressRoutePortID(args).err # NoError

-----------------------------------------------------------------------------
(***************************************************************************)
(* The virtual machine scale set's disks.  A configuration block is a      *)
(* record of its schema's fields; an enumeration value, an ID or a name is *)
(* a string compared as a whole.                                           *)
(***************************************************************************)

\* compute.CachingTypes, as the schemas list them
CachingTypes == {"None", "ReadOnly", "ReadWrite"}

\* The storage account types the os_disk schema allows.
OSDiskStorageAccountTypes ==
    {"Premium_LRS", "Premium_ZRS", "Standard_LRS", "StandardSSD_LRS", "StandardSSD_ZRS"}

\* The storage account types the data_disk schema allows.
DataDiskStorageAccountTypes ==
    {"Premium_LRS", "PremiumV2_LRS", "Premium_ZRS", "Standard_LRS", "StandardSSD_LRS",
     "StandardSSD_ZRS", "UltraSSD_LRS"}

\* What an expand function of a disk returns: the disk (or disks) and the
\* error; panic is a nil pointer dereference on the way.
DiskResult(disk, err) == [disk |-> disk, err |-> err, panic |-> FALSE]
DiskPanic == [disk |-> Nil, err |-> NoError, panic |-> TRUE]

\* The error messages, without the backquotes the source puts around names.
ErrSecureVMDiskEncryptionSet ==
    "secure_vm_disk_encryption_set_id can only be specified when security_encryption_type is set to DiskWithVMGuestState"
ErrDiffDiskSettings ==
    "diff_disk_settings can only be set when caching is set to ReadOnly"

\* A mutant of SecureVMDiskEncryptionSetAllowed: any encryption type will do.
SecureVMDiskEncryptionSetAnyType(securityEncryptionType) ==
    securityEncryptionType # ""

\* The test on security_encryption_type that guards
\* secure_vm_disk_encryption_set_id.
SecureVMDiskEncryptionSetAllowed(securityEncryptionType) ==
    "DiskWithVMGuestState" = securityEncryptionType

\* A mutant of DiffDiskSettingsAllowed: any caching but None will do.
DiffDiskSettingsAnyCaching(caching) ==
    caching # "None"

\* The test on caching that guards diff_disk_settings.
DiffDiskSettingsAllowed(caching) ==
    caching = "ReadOnly"

ExpandVirtualMachineScaleSetOSDisk(input, osType) ==
    LET raw == input[1]
        caching == raw.caching
        securityEncryptionType == raw.security_encryption_type
        secureVMDiskEncryptionId == raw.secure_vm_disk_encryption_set_id
        diskEncryptionSetId == raw.disk_encryption_set_id
        osDiskSize == raw.disk_size_gb
        diffDiskSettingsRaw == raw.diff_disk_settings
        \* disk.ManagedDisk.SecurityProfile after the first if
        securityProfile ==
            IF securityEncryptionType # ""
            THEN Ptr([SecurityEncryptionType |-> Ptr(securityEncryptionType),
                      DiskEncryptionSet |-> Nil])
            ELSE Nil
        \* and after the second
        securityProfileWithSet ==
            IF secureVMDiskEncryptionId # ""
            THEN Ptr([Deref(securityProfile) EXCEPT
                        !.DiskEncryptionSet = Ptr([Id |-> Ptr(secureVMDiskEncryptionId)])])
            ELSE securityProfile
        disk ==
            [Caching |-> Ptr(caching),
             ManagedDisk |-> Ptr([StorageAccountType |-> Ptr(raw.storage_account_type),
                                  SecurityProfile |-> securityProfileWithSet,
                                  DiskEncryptionSet |->
                                      IF diskEncryptionSetId # ""
                                      THEN Ptr([Id |-> Ptr(diskEncryptionSetId)]) ELSE Nil]),
             WriteAcceleratorEnabled |-> Ptr(raw.write_accelerator_enabled),
             CreateOption |-> "FromImage",
             OsType |-> Ptr(osType),
             DiskSizeGB |-> IF osDiskSize > 0 THEN Ptr(osDiskSize) ELSE Nil,
             DiffDiskSettings |->
                 IF Len(diffDiskSettingsRaw) > 0
                 THEN Ptr([Option |-> Ptr(diffDiskSettingsRaw[1].option),
                           Placement |-> Ptr(diffDiskSettingsRaw[1].placement)])
                 ELSE Nil]
    IN  IF secureVMDiskEncryptionId # "" /\ ~SecureVMDiskEncryptionSetAllowed(securityEncryptionType)
        THEN DiskResult(Nil, ErrSecureVMDiskEncryptionSet)
        ELSE IF secureVMDiskEncryptionId # "" /\ securityProfile = Nil
        THEN DiskPanic
        ELSE IF Len(diffDiskSettingsRaw) > 0 /\ ~DiffDiskSettingsAllowed(caching)
        THEN DiskResult(Nil, ErrDiffDiskSettings)
        ELSE DiskResult(Ptr(disk), NoError)

FlattenVirtualMachineScaleSetOSDisk(input) ==
    IF input = Nil THEN <<>>
    ELSE LET disk == Deref(input)
             managedDisk == Deref(disk.ManagedDisk)
             securityProfile == Deref(managedDisk.SecurityProfile)
             SubResourceId(sub) == IF sub # Nil /\ Deref(sub).Id # Nil
                                   THEN Deref(Deref(sub).Id) ELSE ""
         IN  <<[caching |-> From(disk.Caching, ""),
                disk_size_gb |-> IF disk.DiskSizeGB # Nil /\ Deref(disk.DiskSizeGB) # 0
                                 THEN Deref(disk.DiskSizeGB) ELSE 0,
                diff_disk_settings |->
                    IF disk.DiffDiskSettings # Nil
                    THEN <<[option |-> From(Deref(disk.DiffDiskSettings).Option, ""),
                            placement |-> From(Deref(disk.DiffDiskSettings).Placement, "")]>>
                    ELSE <<>>,
                storage_account_type |->
                    IF disk.ManagedDisk # Nil
                    THEN From(managedDisk.StorageAccountType, "") ELSE "",
                write_accelerator_enabled |-> From(disk.WriteAcceleratorEnabled, FALSE),
                disk_encryption_set_id |->
                    IF disk.ManagedDisk # Nil
                    THEN SubResourceId(managedDisk.DiskEncryptionSet) ELSE "",
                secure_vm_disk_encryption_set_id |->
                    IF disk.ManagedDisk # Nil /\ managedDisk.SecurityProfile # Nil
                    THEN SubResourceId(securityProfile.DiskEncryptionSet) ELSE "",
                security_encryption_type |->
                    IF disk.ManagedDisk # Nil /\ managedDisk.SecurityProfile # Nil
                    THEN From(securityProfile.SecurityEncryptionType, "") ELSE ""]>>

ErrUltraSSDDiskIops ==
    "ultra_ssd_disk_iops_read_write can only be set when storage_account_type is set to PremiumV2_LRS or UltraSSD_LRS"
ErrUltraSSDDiskMbps ==
    "ultra_ssd_disk_mbps_read_write can only be set when storage_account_type is set to PremiumV2_LRS or UltraSSD_LRS"

\* raw[key] of an optional integer key: the value when the key is there and
\* its value is greater than 0, else 0.
PositiveOrZero(value) == IF value # Nil /\ Deref(value) > 0 THEN Deref(value) ELSE 0

\* A mutant of SetIfPositive: the field is set whatever the value.
SetAlways(value) == Ptr(value)

\* "Do not set value unless value is greater than 0": the field of the disk
\* for the value kept from the block.
SetIfPositive(value) == IF value > 0 THEN Ptr(value) ELSE Nil

\* The disk one data_disk block expands to, iops and mbps being the values
\* kept from the block.
ExpandDataDiskBlock(raw, iops, mbps) ==
    [Caching |-> Ptr(raw.caching),
     DiskSizeGB |-> Ptr(raw.disk_size_gb),
     Lun |-> raw.lun,
     ManagedDisk |-> Ptr([StorageAccountType |-> Ptr(raw.storage_account_type),
                          SecurityProfile |-> Nil,
                          DiskEncryptionSet |->
                              IF raw.disk_encryption_set_id # ""
                              THEN Ptr([Id |-> Ptr(raw.disk_encryption_set_id)]) ELSE Nil]),
     WriteAcceleratorEnabled |-> Ptr(raw.write_accelerator_enabled),
     CreateOption |-> raw.create_option,
     Name |-> IF raw.name # Nil /\ Deref(raw.name) # "" THEN Ptr(Deref(raw.name)) ELSE Nil,
     DiskIOPSReadWrite |-> SetIfPositive(iops),
     DiskMBpsReadWrite |-> SetIfPositive(mbps)]

\* The loop of ExpandVirtualMachineScaleSetDataDisk from block i on, disks
\* being the disks appended so far.
RECURSIVE ExpandDataDiskFrom(_, _, _, _)
ExpandDataDiskFrom(input, ultraSSDEnabled, i, disks) ==
    IF i > Len(input) THEN DiskResult(Ptr(disks), NoError)
    ELSE LET raw == input[i]
             storageAccountType == raw.storage_account_type
             iops == PositiveOrZero(raw.ultra_ssd_disk_iops_read_write)
             mbps == PositiveOrZero(raw.ultra_ssd_disk_mbps_read_write)
         IN  IF iops > 0 /\ ~ultraSSDEnabled /\ storageAccountType # "PremiumV2_LRS"
             THEN DiskResult(Nil, ErrUltraSSDDiskIops)
             ELSE IF mbps > 0 /\ ~ultraSSDEnabled /\ storageAccountType # "PremiumV2_LRS"
             THEN DiskResult(Nil, ErrUltraSSDDiskMbps)
             ELSE ExpandDataDiskFrom(input, ultraSSDEnabled, i + 1,
                                     Append(disks, ExpandDataDiskBlock(raw, iops, mbps)))

ExpandVirtualMachineScaleSetDataDisk(input, ultraSSDEnabled) ==
    ExpandDataDiskFrom(input, ultraSSDEnabled, 1, <<>>)

-----------------------------------------------------------------------------
(***************************************************************************)
(* The calls of the disks' expand functions.                               *)
(***************************************************************************)

\* The most data_disk blocks of a configuration.
MaxDataDisks == 2

DiskEncryptionSetId == "/subscriptions/s/resourceGroups/g/providers/Microsoft.Compute/diskEncryptionSets/des"

\* The os_disk blocks the schema allows: every enumeration value, a zero,
\* a small and the largest size, each ID set or not (the two encryption set
\* IDs conflict with each other), with or without a diff_disk_settings block.
OSDiskBlocks ==
    { b \in [caching : CachingTypes,
             storage_account_type : OSDiskStorageAccountTypes,
             diff_disk_settings : {<<>>} \cup {<<d>> : d \in [option : {"Local"},
                                                             placement : {"CacheDisk", "ResourceDisk"}]},
             disk_encryption_set_id : {"", DiskEncryptionSetId},
             disk_size_gb : {0, 30, 4095},
             secure_vm_disk_encryption_set_id : {"", DiskEncryptionSetId},
             security_encryption_type : {"", "VMGuestStateOnly", "DiskWithVMGuestState"},
             write_accelerator_enabled : BOOLEAN] :
        b.disk_encryption_set_id = "" \/ b.secure_vm_disk_encryption_set_id = "" }

\* The fields of a data_disk block that only pass through, by the block's
\* position: the first block leaves every optional field out.
DataDiskBlockAt(i, storageAccountType, iops, mbps) ==
    [name |-> IF i = 1 THEN Nil ELSE Ptr("datadisk"),
     caching |-> IF i = 1 THEN "None" ELSE "ReadWrite",
     create_option |-> "Empty",
     disk_encryption_set_id |-> IF i = 1 THEN "" ELSE DiskEncryptionSetId,
     disk_size_gb |-> 10 * i,
     lun |-> i - 1,
     storage_account_type |-> storageAccountType,
     write_accelerator_enabled |-> (i # 1),
     ultra_ssd_disk_iops_read_write |-> iops,
     ultra_ssd_disk_mbps_read_write |-> mbps]

\* An optional integer key of a block: absent, 0, or a value the schema
\* allows.
OptionalInts == {Nil, Ptr(0), Ptr(500)}

\* What a data_disk list of n blocks chooses for each block: the storage
\* account type and the two optional integers.
DataDiskChoices(n) ==
    [1..n -> DataDiskStorageAccountTypes \X OptionalInts \X OptionalInts]

\* The data_disk list of a choice.
DataDiskList(choice) ==
    [i \in DOMAIN choice |-> DataDiskBlockAt(i, choice[i][1], choice[i][2], choice[i][3])]

InitDisk ==
    /\ Calling
    /\ \/ /\ op \in {"ExpandVirtualMachineScaleSetOSDisk", "OSDiskRoundTrip"}
          /\ \E b \in OSDiskBlocks, osType \in {"Linux", "Windows"} : args = <<<<b>>, osType>>
       \/ /\ op = "ExpandVirtualMachineScaleSetDataDisk"
          /\ \E n \in 0..MaxDataDisks : \E choice \in DataDiskChoices(n) :
                \E ultraSSDEnabled \in BOOLEAN :
                    args = <<DataDiskList(choice), ultraSSDEnabled>>

CallExpandVirtualMachineScaleSetOSDisk ==
    Returns("ExpandVirtualMachineScaleSetOSDisk",
            ExpandVirtualMachineScaleSetOSDisk(args[1], args[2]))

CallExpandVirtualMachineScaleSetDataDisk ==
    Returns("ExpandVirtualMachineScaleSetDataDisk",
            ExpandVirtualMachineScaleSetDataDisk(args[1], args[2]))

\* Flatten(Expand(x, osType)) where Expand accepts x
CallOSDiskRoundTrip ==
    LET expanded == ExpandVirtualMachineScaleSetOSDisk(args[1], args[2])
    IN  Returns("OSDiskRoundTrip",
                [err |-> expanded.err, panic |-> expanded.panic,
                 flattened |-> IF expanded.err = NoError /\ ~expanded.panic
                               THEN FlattenVirtualMachineScaleSetOSDisk(expanded.disk)
                               ELSE <<>>])

NextDisk ==
    \/ CallExpandVirtualMachineScaleSetOSDisk
    \/ CallExpandVirtualMachineScaleSetDataDisk
    \/ CallOSDiskRoundTrip

SpecDisk == InitDisk /\ [][NextDisk]_vars

-----------------------------------------------------------------------------
(***************************************************************************)
(* Properties of the disks' expand functions, checked under SpecDisk.      *)
(***************************************************************************)

\* The os_disk block of a call of ExpandVirtualMachineScaleSetOSDisk.
OSDiskRaw == args[1][1]

\* The managed disk of the disk the call returned.
OSDiskManagedDisk == Deref(Deref(ret.disk).ManagedDisk)

\* C7: ExpandVirtualMachineScaleSetOSDisk returns an error and no disk when
\* secure_vm_disk_encryption_set_id is set and security_encryption_type is
\* not DiskWithVMGuestState (empty included); when it accepts, the ID is
\* under ManagedDisk.SecurityProfile.DiskEncryptionSet, and SecurityProfile
\* is there whenever that field is written.
C7_SecureVMDiskEncryptionSet ==
    Returned("ExpandVirtualMachineScaleSetOSDisk") =>
        /\ ~ret.panic
        /\ (OSDiskRaw.secure_vm_disk_encryption_set_id # ""
            /\ OSDiskRaw.security_encryption_type # "DiskWithVMGuestState")
              => (ret.err = ErrSecureVMDiskEncryptionSet /\ ret.disk = Nil)
        /\ (OSDiskRaw.secure_vm_disk_encryption_set_id # "" /\ ret.err = NoError)
              => /\ OSDiskManagedDisk.SecurityProfile # Nil
                 /\ Deref(OSDiskManagedDisk.SecurityProfile).DiskEncryptionSet
                       = Ptr([Id |-> Ptr(OSDiskRaw.secure_vm_disk_encryption_set_id)])

\* The ID was given with the other encryption type, and the call returned
\* the error and no disk.
C7_Witness ==
    /\ Returned("ExpandVirtualMachineScaleSetOSDisk")
    /\ OSDiskRaw.secure_vm_disk_encryption_set_id # ""
    /\ OSDiskRaw.security_encryption_type = "VMGuestStateOnly"
    /\ ret.err = ErrSecureVMDiskEncryptionSet
    /\ ret.disk = Nil

\* A data_disk block asks for provisioned IOPS or throughput.
AsksUltraSSDSetting(raw) ==
    \/ PositiveOrZero(raw.ultra_ssd_disk_iops_read_write) > 0
    \/ PositiveOrZero(raw.ultra_ssd_disk_mbps_read_write) > 0

\* C8: ExpandVirtualMachineScaleSetDataDisk accepts a data disk whose
\* ultra_ssd_disk_iops_read_write or ultra_ssd_disk_mbps_read_write is
\* greater than 0 only when the disk's storage_account_type is PremiumV2_LRS
\* or UltraSSD_LRS; for any other type it returns the error and a nil list.
C8_UltraSSDSettingNeedsStorageType ==
    Returned("ExpandVirtualMachineScaleSetDataDisk") =>
        \A i \in DOMAIN args[1] :
            (AsksUltraSSDSetting(args[1][i])
             /\ args[1][i].storage_account_type \notin {"PremiumV2_LRS", "UltraSSD_LRS"})
                => (ret.err \in {ErrUltraSSDDiskIops, ErrUltraSSDDiskMbps} /\ ret.disk = Nil)

\* What the function tests instead: the error is returned exactly when some
\* block asks for such a setting, its type is not PremiumV2_LRS, and
\* ultraSSDEnabled (the scale set's additional capability) is false.
UltraSSDErrorIffCapabilityOff ==
    Returned("ExpandVirtualMachineScaleSetDataDisk") =>
        (ret.err # NoError <=>
            (~args[2] /\ \E i \in DOMAIN args[1] :
                            /\ AsksUltraSSDSetting(args[1][i])
                            /\ args[1][i].storage_account_type # "PremiumV2_LRS"))

\* A data_disk block configures a value greater than 0 under an optional
\* integer key.
Configured(value) == value # Nil /\ Deref(value) > 0

\* C25: ExpandVirtualMachineScaleSetDataDisk, when it succeeds, returns one
\* disk per data_disk block in the order of the blocks, and a disk has
\* DiskIOPSReadWrite (DiskMBpsReadWrite) set, to the configured value, if
\* and only if the block's ultra_ssd_disk_iops_read_write
\* (ultra_ssd_disk_mbps_read_write) is greater than 0; with 0 or without
\* the key the field is unset.
C25_DataDiskIopsAndMbps ==
    (Returned("ExpandVirtualMachineScaleSetDataDisk") /\ ret.err = NoError) =>
        /\ ret.disk # Nil
        /\ Len(Deref(ret.disk)) = Len(args[1])
        /\ \A i \in DOMAIN args[1] :
              LET raw == args[1][i]
                  disk == Deref(ret.disk)[i]
              IN  /\ disk.Lun = raw.lun
                  /\ disk.DiskSizeGB = Ptr(raw.disk_size_gb)
                  /\ disk.DiskIOPSReadWrite # Nil <=> Configured(raw.ultra_ssd_disk_iops_read_write)
                  /\ disk.DiskMBpsReadWrite # Nil <=> Configured(raw.ultra_ssd_disk_mbps_read_write)
                  /\ Configured(raw.ultra_ssd_disk_iops_read_write)
                        => disk.DiskIOPSReadWrite = raw.ultra_ssd_disk_iops_read_write
                  /\ Configured(raw.ultra_ssd_disk_mbps_read_write)
                        => disk.DiskMBpsReadWrite = raw.ultra_ssd_disk_mbps_read_write

\* Two blocks were expanded: the first configures 0 IOPS and no throughput,
\* the second configures both, and only the second disk has them set.
C25_Witness ==
    /\ Returned("ExpandVirtualMachineScaleSetDataDisk")
    /\ ret.err = NoError
    /\ Len(args[1]) = 2
    /\ args[1][1].ultra_ssd_disk_iops_read_write = Ptr(0)
    /\ args[1][1].ultra_ssd_disk_mbps_read_write = Nil
    /\ Configured(args[1][2].ultra_ssd_disk_iops_read_write)
    /\ Configured(args[1][2].ultra_ssd_disk_mbps_read_write)
    /\ Deref(ret.disk)[1].DiskIOPSReadWrite = Nil
    /\ Deref(ret.disk)[1].DiskMBpsReadWrite = Nil
    /\ Deref(ret.disk)[2].DiskIOPSReadWrite # Nil
    /\ Deref(ret.disk)[2].DiskMBpsReadWrite # Nil

\* C9: ExpandVirtualMachineScaleSetOSDisk returns an error and no disk when
\* a diff_disk_settings block is present and caching is not ReadOnly; with
\* ReadOnly the check passes and the block's option and placement are in
\* DiffDiskSettings of the disk returned; without the block DiffDiskSettings
\* is unset whatever the caching.
C9_DiffDiskSettings ==
    Returned("ExpandVirtualMachineScaleSetOSDisk") =>
        /\ (Len(OSDiskRaw.diff_disk_settings) > 0 /\ OSDiskRaw.caching # "ReadOnly")
              => (ret.err # NoError /\ ret.disk = Nil)
        /\ (Len(OSDiskRaw.diff_disk_settings) > 0 /\ OSDiskRaw.caching = "ReadOnly")
              => /\ ret.err # ErrDiffDiskSettings
                 /\ ret.err = NoError =>
                       Deref(ret.disk).DiffDiskSettings
                          = Ptr([Option |-> Ptr(OSDiskRaw.diff_disk_settings[1].option),
                                 Placement |-> Ptr(OSDiskRaw.diff_disk_settings[1].placement)])
        /\ Len(OSDiskRaw.diff_disk_settings) = 0
              => /\ ret.err # ErrDiffDiskSettings
                 /\ ret.err = NoError => Deref(ret.disk).DiffDiskSettings = Nil

\* A block with the resource disk as placement was given with ReadOnly
\* caching, and the disk returned carries it.
C9_Witness ==
    /\ Returned("ExpandVirtualMachineScaleSetOSDisk")
    /\ Len(OSDiskRaw.diff_disk_settings) > 0
    /\ OSDiskRaw.caching = "ReadOnly"
    /\ ret.err = NoError
    /\ Deref(Deref(ret.disk).DiffDiskSettings).Placement = Ptr("ResourceDisk")

\* C16: for every os_disk block x of the schema that
\* ExpandVirtualMachineScaleSetOSDisk accepts, Flatten(Expand(x, osType))
\* is a list of one element whose caching, storage_account_type,
\* disk_size_gb, diff_disk_settings, disk_encryption_set_id,
\* secure_vm_disk_encryption_set_id, security_encryption_type and
\* write_accelerator_enabled are those of x, for either osType.
C16_OSDiskRoundTrip ==
    (Returned("OSDiskRoundTrip") /\ ret.err = NoError) =>
        /\ ~ret.panic
        /\ ret.flattened = <<OSDiskRaw>>

\* A round trip of a block with every optional value set.
C16_Witness ==
    /\ Returned("OSDiskRoundTrip")
    /\ ret.err = NoError
    /\ OSDiskRaw.secure_vm_disk_encryption_set_id # ""
    /\ Len(OSDiskRaw.diff_disk_settings) > 0
    /\ OSDiskRaw.disk_size_gb > 0
    /\ OSDiskRaw.write_accelerator_enabled
    /\ args[2] = "Windows"
    /\ ret.flattened = <<OSDiskRaw>>

-----------------------------------------------------------------------------
(***************************************************************************)
(* The virtual machine scale set's network interfaces.  A set of the       *)
(* configuration (a pluginsdk.Set) is a set of strings.                    *)
(***************************************************************************)

ErrIPv6Primary ==
    "an IPv6 Primary IP Configuration is unsupported - instead add a IPv4 IP Configuration as the Primary and make the IPv6 IP Configuration the secondary"

\* The elements of a set one after the other, in an order the set fixes.
RECURSIVE SetListFrom(_)
SetListFrom(set) ==
    IF set = {} THEN <<>>
    ELSE LET first == CHOOSE x \in set : TRUE
         IN  <<first>> \o SetListFrom(set \ {first})

\* List() of a pluginsdk.Set: the elements, each once, in the set's own order
SetList(set) == SetListFrom(set)

\* utils.ExpandStringSlice
ExpandStringSlice(input) == Ptr(input)

\* expandIDsToSubResources: a sub-resource for each ID, in order
expandIDsToSubResources(input) ==
    Ptr([i \in DOMAIN input |-> [Id |-> Ptr(input[i])]])

\* A mutant of IPv6Primary: the test is on the version alone being IPv4.
IPv6PrimaryWrongVersion(primary, version) ==
    primary /\ version = "IPv4"

\* The test both IP configuration functions make before building anything.
IPv6Primary(primary, version) ==
    primary /\ version = "IPv6"

expandVirtualMachineScaleSetPublicIPAddress(raw) ==
    LET ipTags == [i \in DOMAIN raw.ip_tag |->
                      [Tag |-> Ptr(raw.ip_tag[i].tag), IPTagType |-> Ptr(raw.ip_tag[i].type)]]
    IN  Ptr([Name |-> raw.name,
             Properties |-> Ptr(
                 [IPTags |-> Ptr(ipTags),
                  PublicIPAddressVersion |-> Ptr(raw.version),
                  DnsSettings |-> IF raw.domain_name_label # ""
                                  THEN Ptr([DomainNameLabel |-> raw.domain_name_label]) ELSE Nil,
                  IdleTimeoutInMinutes |-> IF raw.idle_timeout_in_minutes > 0
                                           THEN Ptr(raw.idle_timeout_in_minutes) ELSE Nil,
                  PublicIPPrefix |-> IF raw.public_ip_prefix_id # ""
                                     THEN Ptr([Id |-> Ptr(raw.public_ip_prefix_id)]) ELSE Nil])])

expandVirtualMachineScaleSetPublicIPAddressUpdate(raw) ==
    Ptr([Name |-> Ptr(raw.name),
         Properties |-> Ptr(
             [DnsSettings |-> IF raw.domain_name_label # ""
                              THEN Ptr([DomainNameLabel |-> raw.domain_name_label]) ELSE Nil,
              IdleTimeoutInMinutes |-> IF raw.idle_timeout_in_minutes > 0
                                       THEN Ptr(raw.idle_timeout_in_minutes) ELSE Nil])])

\* What an expand function of the network returns: a pointer and the error.
NetResult(out, err) == [out |-> out, err |-> err]

\* The properties both IP configuration functions build.
IPConfigurationProperties(raw, update) ==
    [Primary |-> Ptr(raw.primary),
     PrivateIPAddressVersion |-> Ptr(raw.version),
     ApplicationGatewayBackendAddressPools |->
         expandIDsToSubResources(SetList(raw.application_gateway_backend_address_pool_ids)),
     ApplicationSecurityGroups |->
         expandIDsToSubResources(SetList(raw.application_security_group_ids)),
     LoadBalancerBackendAddressPools |->
         expandIDsToSubResources(SetList(raw.load_balancer_backend_address_pool_ids)),
     LoadBalancerInboundNatPools |->
         expandIDsToSubResources(SetList(raw.load_balancer_inbound_nat_rules_ids)),
     Subnet |-> IF raw.subnet_id # "" THEN Ptr([Id |-> Ptr(raw.subnet_id)]) ELSE Nil,
     PublicIPAddressConfiguration |->
         IF Len(raw.public_ip_address) > 0
         THEN IF update
              THEN expandVirtualMachineScaleSetPublicIPAddressUpdate(raw.public_ip_address[1])
              ELSE expandVirtualMachineScaleSetPublicIPAddress(raw.public_ip_address[1])
         ELSE Nil]

expandVirtualMachineScaleSetIPConfiguration(raw) ==
    IF IPv6Primary(raw.primary, raw.version)
    THEN NetResult(Nil, ErrIPv6Primary)
    ELSE NetResult(
             Ptr([Name |-> raw.name,
                  Properties |-> Ptr(IPConfigurationProperties(raw, FALSE))]),
             NoError)

expandVirtualMachineScaleSetIPConfigurationUpdate(raw) ==
    IF IPv6Primary(raw.primary, raw.version)
    THEN NetResult(Nil, ErrIPv6Primary)
    ELSE NetResult(
             Ptr([Name |-> Ptr(raw.name),
                  Properties |-> Ptr(IPConfigurationProperties(raw, TRUE))]),
             NoError)

\* The inner loop of both network interface functions, from block i on.
RECURSIVE ExpandIPConfigurationsFrom(_, _, _, _)
ExpandIPConfigurationsFrom(ipConfigurationsRaw, update, i, ipConfigurations) ==
    IF i > Len(ipConfigurationsRaw) THEN NetResult(ipConfigurations, NoError)
    ELSE LET r == IF update
                  THEN expandVirtualMachineScaleSetIPConfigurationUpdate(ipConfigurationsRaw[i])
                  ELSE expandVirtualMachineScaleSetIPConfiguration(ipConfigurationsRaw[i])
         IN  IF r.err # NoError THEN NetResult(Nil, r.err)
             ELSE ExpandIPConfigurationsFrom(ipConfigurationsRaw, update, i + 1,
                                             Append(ipConfigurations, Deref(r.out)))

\* The network configuration of one network_interface block.
NetworkConfiguration(raw, update, ipConfigurations) ==
    [Name |-> IF update THEN Ptr(raw.name) ELSE raw.name,
     Properties |-> Ptr(
         [DnsSettings |-> Ptr([DnsServers |-> ExpandStringSlice(raw.dns_servers)]),
          EnableAcceleratedNetworking |-> Ptr(raw.enable_accelerated_networking),
          EnableIPForwarding |-> Ptr(raw.enable_ip_forwarding),
          IPConfigurations |-> IF update THEN Ptr(ipConfigurations) ELSE ipConfigurations,
          Primary |-> Ptr(raw.primary),
          NetworkSecurityGroup |-> IF raw.network_security_group_id # ""
                                   THEN Ptr([Id |-> Ptr(raw.network_security_group_id)])
                                   ELSE Nil])]

\* The outer loop of both network interface functions, from block i on.
RECURSIVE ExpandNetworkInterfacesFrom(_, _, _, _)
ExpandNetworkInterfacesFrom(input, update, i, output) ==
    IF i > Len(input) THEN NetResult(Ptr(output), NoError)
    ELSE LET raw == input[i]
             r == ExpandIPConfigurationsFrom(raw.ip_configuration, update, 1, <<>>)
         IN  IF r.err # NoError THEN NetResult(Nil, r.err)
             ELSE ExpandNetworkInterfacesFrom(input, update, i + 1,
                                              Append(output, NetworkConfiguration(raw, update, r.out)))

ExpandVirtualMachineScaleSetNetworkInterface(input) ==
    ExpandNetworkInterfacesFrom(input, FALSE, 1, <<>>)

ExpandVirtualMachineScaleSetNetworkInterfaceUpdate(input) ==
    ExpandNetworkInterfacesFrom(input, TRUE, 1, <<>>)

\* utils.FlattenStringSlice
FlattenStringSlice(input) == From(input, <<>>)

\* flattenSubResourcesToIDs: the IDs of the sub-resources that have one
flattenSubResourcesToIDs(input) ==
    IF input = Nil THEN <<>>
    ELSE LET withId == SelectSeq(Deref(input), LAMBDA v : v.Id # Nil)
         IN  [i \in DOMAIN withId |-> Deref(withId[i].Id)]

flattenVirtualMachineScaleSetPublicIPAddress(input) ==
    IF input.Properties = Nil THEN <<>>
    ELSE LET props == Deref(input.Properties)
             rawTags == From(props.IPTags, <<>>)
         IN  [name |-> input.Name,
              domain_name_label |-> IF props.DnsSettings # Nil
                                    THEN Deref(props.DnsSettings).DomainNameLabel ELSE "",
              idle_timeout_in_minutes |-> From(props.IdleTimeoutInMinutes, 0),
              ip_tag |-> [i \in DOMAIN rawTags |->
                             [tag |-> From(rawTags[i].Tag, ""),
                              type |-> From(rawTags[i].IPTagType, "")]],
              public_ip_prefix_id |->
                  IF props.PublicIPPrefix # Nil /\ Deref(props.PublicIPPrefix).Id # Nil
                  THEN Deref(Deref(props.PublicIPPrefix).Id) ELSE "",
              version |-> From(props.PublicIPAddressVersion, "")]

flattenVirtualMachineScaleSetIPConfiguration(input) ==
    IF input.Properties = Nil THEN <<>>
    ELSE LET props == Deref(input.Properties)
         IN  [name |-> input.Name,
              primary |-> From(props.Primary, FALSE),
              public_ip_address |->
                  IF props.PublicIPAddressConfiguration # Nil
                  THEN <<flattenVirtualMachineScaleSetPublicIPAddress(
                             Deref(props.PublicIPAddressConfiguration))>>
                  ELSE <<>>,
              subnet_id |-> IF props.Subnet # Nil /\ Deref(props.Subnet).Id # Nil
                            THEN Deref(Deref(props.Subnet).Id) ELSE "",
              version |-> From(props.PrivateIPAddressVersion, ""),
              application_gateway_backend_address_pool_ids |->
                  flattenSubResourcesToIDs(props.ApplicationGatewayBackendAddressPools),
              application_security_group_ids |->
                  flattenSubResourcesToIDs(props.ApplicationSecurityGroups),
              load_balancer_backend_address_pool_ids |->
                  flattenSubResourcesToIDs(props.LoadBalancerBackendAddressPools),
              load_balancer_inbound_nat_rules_ids |->
                  flattenSubResourcesToIDs(props.LoadBalancerInboundNatPools)]

FlattenVirtualMachineScaleSetNetworkInterface(input) ==
    IF input = Nil THEN <<>>
    ELSE LET withProperties == SelectSeq(Deref(input), LAMBDA v : v.Properties # Nil)
         IN  [j \in DOMAIN withProperties |->
                 LET v == withProperties[j]
                     props == Deref(v.Properties)
                 IN  [name |-> v.Name,
                      dns_servers |-> IF props.DnsSettings # Nil
                                      THEN FlattenStringSlice(Deref(props.DnsSettings).DnsServers)
                                      ELSE <<>>,
                      enable_accelerated_networking |->
                          From(props.EnableAcceleratedNetworking, FALSE),
                      enable_ip_forwarding |-> From(props.EnableIPForwarding, FALSE),
                      ip_configuration |->
                          [i \in DOMAIN props.IPConfigurations |->
                              flattenVirtualMachineScaleSetIPConfiguration(
                                  props.IPConfigurations[i])],
                      network_security_group_id |->
                          IF props.NetworkSecurityGroup # Nil
                             /\ Deref(props.NetworkSecurityGroup).Id # Nil
                          THEN Deref(Deref(props.NetworkSecurityGroup).Id) ELSE "",
                      primary |-> From(props.Primary, FALSE)]]

-----------------------------------------------------------------------------
(***************************************************************************)
(* The calls of the network interface functions: every list of            *)
(* network_interface blocks that holds at most MaxIPConfigs ip_configuration *)
(* blocks in all, each of them primary or not, of either version, in every *)
(* division of the blocks among interfaces.  The fields the functions pass *)
(* through differ by the block's position.                                 *)
(***************************************************************************)

MaxIPConfigs == 3

IPVersions == {"IPv4", "IPv6"}

\* A public_ip_address block of the schema.
PublicIPAddressBlockAt(i) ==
    [name |-> "pip" \o ToString(i),
     domain_name_label |-> IF i % 2 = 1 THEN "label" \o ToString(i) ELSE "",
     idle_timeout_in_minutes |-> IF i % 2 = 1 THEN 4 ELSE 0,
     ip_tag |-> IF i % 2 = 1 THEN <<[tag |-> "tag", type |-> "RoutingPreference"]>> ELSE <<>>,
     public_ip_prefix_id |-> IF i % 2 = 0 THEN "prefix" \o ToString(i) ELSE "",
     version |-> "IPv4"]

\* The ip_configuration block of the schema at position i of the call.
IPConfigurationBlockAt(i, primary, version) ==
    [name |-> "ipconfig" \o ToString(i),
     primary |-> primary,
     version |-> version,
     application_gateway_backend_address_pool_ids |->
         IF i % 2 = 1 THEN {"agpool" \o ToString(i)} ELSE {},
     application_security_group_ids |-> IF i % 2 = 0 THEN {"asg" \o ToString(i)} ELSE {},
     load_balancer_backend_address_pool_ids |->
         IF i % 2 = 1 THEN {"lbpool1", "lbpool2"} ELSE {},
     load_balancer_inbound_nat_rules_ids |-> IF i % 2 = 0 THEN {"nat" \o ToString(i)} ELSE {},
     subnet_id |-> IF i % 2 = 1 THEN "subnet" \o ToString(i) ELSE "",
     public_ip_address |-> IF i % 2 = 0 THEN <<PublicIPAddressBlockAt(i)>>
                           ELSE IF i % 3 = 0
                           THEN <<PublicIPAddressBlockAt(i), PublicIPAddressBlockAt(i + 1)>>
                           ELSE <<>>]

\* The network_interface block of the schema that is the j-th of the call.
NetworkInterfaceBlockAt(j, ipConfigurations) ==
    [name |-> "nic" \o ToString(j),
     ip_configuration |-> ipConfigurations,
     dns_servers |-> IF j % 2 = 1 THEN <<"10.0.0.4">> ELSE <<>>,
     enable_accelerated_networking |-> j % 2 = 0,
     enable_ip_forwarding |-> j % 2 = 1,
     network_security_group_id |-> IF j % 2 = 0 THEN "nsg" \o ToString(j) ELSE "",
     primary |-> j = 1]

\* Of each ip_configuration block: whether it is primary, its version, and
\* whether it is the first of a further network_interface block.
IPConfigChoices(n) == [1..n -> BOOLEAN \X IPVersions \X BOOLEAN]

\* The positions at which a network_interface block begins.
InterfaceStarts(choice) ==
    {i \in DOMAIN choice : i = 1 \/ choice[i][3]}

NetworkInterfaceList(choice) ==
    LET n == Len(choice)
        starts == InterfaceStarts(choice)
        StartOf(j) == CHOOSE i \in starts : Cardinality({x \in starts : x < i}) = j - 1
        EndOf(j) == IF j = Cardinality(starts) THEN n ELSE StartOf(j + 1) - 1
        Config(i) == IPConfigurationBlockAt(i, choice[i][1], choice[i][2])
    IN  [j \in 1..Cardinality(starts) |->
            NetworkInterfaceBlockAt(j, [x \in 1..(EndOf(j) - StartOf(j) + 1) |->
                                           Config(StartOf(j) + x - 1)])]

NetOps == {"ExpandVirtualMachineScaleSetNetworkInterface",
           "ExpandVirtualMachineScaleSetNetworkInterfaceUpdate"}

InitNet ==
    /\ op \in NetOps \cup {"NetworkInterfaceRoundTrip"}
    /\ \E n \in 0..MaxIPConfigs : \E choice \in IPConfigChoices(n) :
           args = <<NetworkInterfaceList(choice)>>
    /\ ret = Nil
    /\ pc = "call"

CallExpandVirtualMachineScaleSetNetworkInterface ==
    /\ op = "ExpandVirtualMachineScaleSetNetworkInterface"
    /\ Returns(op, ExpandVirtualMachineScaleSetNetworkInterface(args[1]))

CallExpandVirtualMachineScaleSetNetworkInterfaceUpdate ==
    /\ op = "ExpandVirtualMachineScaleSetNetworkInterfaceUpdate"
    /\ Returns(op, ExpandVirtualMachineScaleSetNetworkInterfaceUpdate(args[1]))

\* Flatten(Expand(x)) where Expand accepts x
CallNetworkInterfaceRoundTrip ==
    LET expanded == ExpandVirtualMachineScaleSetNetworkInterface(args[1])
    IN  Returns("NetworkInterfaceRoundTrip",
                [err |-> expanded.err,
                 flattened |-> IF expanded.err = NoError
                               THEN FlattenVirtualMachineScaleSetNetworkInterface(expanded.out)
                               ELSE <<>>])

NextNet ==
    \/ CallExpandVirtualMachineScaleSetNetworkInterface
    \/ CallExpandVirtualMachineScaleSetNetworkInterfaceUpdate
    \/ CallNetworkInterfaceRoundTrip

SpecNet == InitNet /\ [][NextNet]_vars

-----------------------------------------------------------------------------
(***************************************************************************)
(* Claims about the network interface functions.                           *)
(***************************************************************************)

NetInput == args[1]

\* The call holds an ip_configuration block that is primary and of IPv6.
HasIPv6Primary(input) ==
    \E j \in DOMAIN input : \E i \in DOMAIN input[j].ip_configuration :
        /\ input[j].ip_configuration[i].primary
        /\ input[j].ip_configuration[i].version = "IPv6"

\* C10: an ip_configuration block that is primary and of version IPv6 is
\* always rejected: whichever network_interface block holds it and at
\* whatever position, ExpandVirtualMachineScaleSetNetworkInterface and
\* ExpandVirtualMachineScaleSetNetworkInterfaceUpdate return the error of
\* the unsupported IPv6 primary IP configuration and a nil result.
C10_IPv6PrimaryRejected ==
    \A o \in NetOps :
        (Returned(o) /\ HasIPv6Primary(NetInput))
            => /\ ret.err = ErrIPv6Primary
               /\ ret.out = Nil
               /\ \A j \in DOMAIN NetInput : \A i \in DOMAIN NetInput[j].ip_configuration :
                      LET raw == NetInput[j].ip_configuration[i]
                      IN  (raw.primary /\ raw.version = "IPv6")
                             => /\ expandVirtualMachineScaleSetIPConfiguration(raw)
                                      = NetResult(Nil, ErrIPv6Primary)
                                /\ expandVirtualMachineScaleSetIPConfigurationUpdate(raw)
                                      = NetResult(Nil, ErrIPv6Primary)

\* The rejected block is the last of a second interface, after blocks the
\* functions accept, in a call of the update function.
C10_Witness ==
    /\ Returned("ExpandVirtualMachineScaleSetNetworkInterfaceUpdate")
    /\ Len(NetInput) = 2
    /\ ~HasIPv6Primary(<<NetInput[1]>>)
    /\ LET configs == NetInput[2].ip_configuration
       IN  /\ Len(configs) = 2
           /\ ~configs[1].primary
           /\ configs[2].primary /\ configs[2].version = "IPv6"
    /\ ret.err = ErrIPv6Primary
    /\ ret.out = Nil

\* The elements of a list, as the set a set-typed field holds.
Elements(list) == {list[i] : i \in DOMAIN list}

\* A flattened public_ip_address block has the values of the configured one.
SamePublicIPAddress(flat, raw) == flat = raw

\* A flattened ip_configuration block has the values of the configured one.
SameIPConfiguration(flat, raw) ==
    /\ flat.name = raw.name
    /\ flat.primary = raw.primary
    /\ flat.subnet_id = raw.subnet_id
    /\ flat.version = raw.version
    /\ Elements(flat.application_gateway_backend_address_pool_ids)
          = raw.application_gateway_backend_address_pool_ids
    /\ Elements(flat.application_security_group_ids) = raw.application_security_group_ids
    /\ Elements(flat.load_balancer_backend_address_pool_ids)
          = raw.load_balancer_backend_address_pool_ids
    /\ Elements(flat.load_balancer_inbound_nat_rules_ids)
          = raw.load_balancer_inbound_nat_rules_ids

\* A flattened network_interface block has the values of the configured
\* one, its ip_configuration blocks included and their public_ip_address
\* blocks left aside.
SameNetworkInterface(flat, raw) ==
    /\ flat.name = raw.name
    /\ flat.dns_servers = raw.dns_servers
    /\ flat.enable_accelerated_networking = raw.enable_accelerated_networking
    /\ flat.enable_ip_forwarding = raw.enable_ip_forwarding
    /\ flat.network_security_group_id = raw.network_security_group_id
    /\ flat.primary = raw.primary
    /\ Len(flat.ip_configuration) = Len(raw.ip_configuration)
    /\ \A i \in DOMAIN raw.ip_configuration :
          SameIPConfiguration(flat.ip_configuration[i], raw.ip_configuration[i])

\* C14: for every network_interface list x of the schema that
\* ExpandVirtualMachineScaleSetNetworkInterface accepts, Flatten(Expand(x))
\* has the length and order of x and every defined field unchanged: those
\* of the interface, of each ip_configuration, and every public_ip_address
\* block with its name, domain_name_label, idle_timeout_in_minutes, ip_tag,
\* public_ip_prefix_id and version.
C14_NetworkInterfaceRoundTrip ==
    (Returned("NetworkInterfaceRoundTrip") /\ ret.err = NoError) =>
        /\ Len(ret.flattened) = Len(NetInput)
        /\ \A j \in DOMAIN NetInput :
              /\ SameNetworkInterface(ret.flattened[j], NetInput[j])
              /\ \A i \in DOMAIN NetInput[j].ip_configuration :
                    LET flat == ret.flattened[j].ip_configuration[i].public_ip_address
                        raw == NetInput[j].ip_configuration[i].public_ip_address
                    IN  /\ Len(flat) = Len(raw)
                        /\ \A k \in DOMAIN raw : SamePublicIPAddress(flat[k], raw[k])

\* What holds: everything but the public_ip_address blocks after the first
\* of an ip_configuration comes back.
NetworkInterfaceRoundTripFirstPublicIP ==
    (Returned("NetworkInterfaceRoundTrip") /\ ret.err = NoError) =>
        /\ Len(ret.flattened) = Len(NetInput)
        /\ \A j \in DOMAIN NetInput :
              /\ SameNetworkInterface(ret.flattened[j], NetInput[j])
              /\ \A i \in DOMAIN NetInput[j].ip_configuration :
                    LET flat == ret.flattened[j].ip_configuration[i].public_ip_address
                        raw == NetInput[j].ip_configuration[i].public_ip_address
                    IN  flat = IF Len(raw) > 0 THEN <<raw[1]>> ELSE <<>>

-----------------------------------------------------------------------------
(***************************************************************************)
(* JSON texts.  The configuration's JSON strings are drawn from the few    *)
(* texts below; JSONParse is encoding/json's reading of each of them.      *)
(***************************************************************************)

\* A JSON value: its kind and, of an object, its members (key and value).
JSONValue(kind, members) == [kind |-> kind, members |-> members]

NotJSON == JSONValue("invalid", {})

\* json.Unmarshal of a text into an interface{}: the value of the text
JSONParse(text) ==
    CASE text = "{}"              -> JSONValue("object", {})
      [] text = "{\"a\":1}"       -> JSONValue("object", {<<"a", 1>>})
      [] text = "{ \"a\" : 1 }"   -> JSONValue("object", {<<"a", 1>>})
      [] text = "{ }"             -> JSONValue("object", {})
      [] text = "{\"a b\":1}"     -> JSONValue("object", {<<"a b", 1>>})
      [] text = "[ 1 ]"           -> JSONValue("array", {<<0, 1>>})
      [] text = " null "          -> JSONValue("null", {})
      [] text = "{\"p\":2}"       -> JSONValue("object", {<<"p", 2>>})
      [] text = "[1]"             -> JSONValue("array", {<<0, 1>>})
      [] text = "null"            -> JSONValue("null", {})
      [] OTHER                    -> NotJSON

\* validation.StringIsJSON: the text unmarshals into an interface{}
StringIsJSON(text) == JSONParse(text) # NotJSON

ErrUnmarshalIntoMap == "json: cannot unmarshal into Go value of type map[string]interface {}"
ErrInvalidJSON == "invalid character looking for beginning of value"

\* pluginsdk.ExpandJsonFromString: json.Unmarshal of the text into a
\* map[string]interface{}; null leaves the map nil, and a value that is not
\* an object is an error.
ExpandJsonFromString(jsonString) ==
    LET v == JSONParse(jsonString)
    IN  CASE v = NotJSON       -> [result |-> JSONValue("nil", {}), err |-> ErrInvalidJSON]
          [] v.kind = "object" -> [result |-> v, err |-> NoError]
          [] v.kind = "null"   -> [result |-> JSONValue("nil", {}), err |-> NoError]
          [] OTHER             -> [result |-> JSONValue("nil", {}), err |-> ErrUnmarshalIntoMap]

\* pluginsdk.FlattenJsonToString: the empty string for a map without
\* members, else json.Marshal of the map, which writes no whitespace.  The
\* error it can return is nil for every map read from a JSON text.
FlattenJsonToString(input) ==
    CASE input.kind = "nil" \/ input.members = {} -> ""
      [] input.members = {<<"a", 1>>}             -> "{\"a\":1}"
      [] input.members = {<<"p", 2>>}             -> "{\"p\":2}"
      [] input.members = {<<"a b", 1>>}           -> "{\"a b\":1}"

-----------------------------------------------------------------------------
(***************************************************************************)
(* The virtual machine scale set's extensions.                             *)
(***************************************************************************)

\* The error messages, without the backquotes the source puts around names
\* and without the JSON error the source appends.
ErrSettingsJSON == "failed to parse JSON from settings"
ErrProtectedSettingsJSON == "failed to parse JSON from protected_settings"
ErrProtectedSettingsConflict ==
    "protected_settings_from_key_vault cannot be used with protected_settings"

expandProtectedSettingsFromKeyVault(input) ==
    IF Len(input) = 0 THEN Nil
    ELSE Ptr([SecretUrl |-> input[1].secret_url,
              SourceVault |-> [Id |-> Ptr(input[1].source_vault_id)]])

\* What expandVirtualMachineScaleSetExtensions returns.
ExtensionsResult(extensionProfile, hasHealthExtension, err) ==
    [extensionProfile |-> extensionProfile, hasHealthExtension |-> hasHealthExtension,
     err |-> err]

\* The extension one block expands to, settings and protectedSettings being
\* the pointers to the maps read from the block's JSON texts.
ExpandExtensionBlock(extensionRaw, settings, protectedSettings) ==
    [Name |-> Ptr(extensionRaw.name),
     Properties |-> Ptr(
         [Publisher |-> Ptr(extensionRaw.publisher),
          Type |-> Ptr(extensionRaw.type),
          TypeHandlerVersion |-> Ptr(extensionRaw.type_handler_version),
          AutoUpgradeMinorVersion |-> Ptr(extensionRaw.auto_upgrade_minor_version),
          EnableAutomaticUpgrade |-> Ptr(extensionRaw.automatic_upgrade_enabled),
          ProvisionAfterExtensions |-> ExpandStringSlice(extensionRaw.provision_after_extensions),
          ForceUpdateTag |-> IF extensionRaw.force_update_tag # Nil
                             THEN Ptr(Deref(extensionRaw.force_update_tag)) ELSE Nil,
          Settings |-> settings,
          ProtectedSettingsFromKeyVault |->
              expandProtectedSettingsFromKeyVault(extensionRaw.protected_settings_from_key_vault),
          ProtectedSettings |-> protectedSettings])]

\* A mutant of IsHealthExtensionType: the Linux extension only.
IsHealthExtensionTypeLinux(extensionType) ==
    extensionType = "ApplicationHealthLinux"

IsHealthExtensionType(extensionType) ==
    extensionType = "ApplicationHealthLinux" \/ extensionType = "ApplicationHealthWindows"

\* The loop of expandVirtualMachineScaleSetExtensions from block i on.
RECURSIVE ExpandExtensionsFrom(_, _, _, _)
ExpandExtensionsFrom(input, i, extensions, hasHealthExtension) ==
    IF i > Len(input)
    THEN ExtensionsResult(Ptr([Extensions |-> Ptr(extensions)]), hasHealthExtension, NoError)
    ELSE LET extensionRaw == input[i]
             hasHealth == hasHealthExtension \/ IsHealthExtensionType(extensionRaw.type)
             settings == ExpandJsonFromString(extensionRaw.settings)
             protectedSettingsFromKeyVault ==
                 expandProtectedSettingsFromKeyVault(extensionRaw.protected_settings_from_key_vault)
             protectedSettings == ExpandJsonFromString(extensionRaw.protected_settings)
         IN  IF extensionRaw.settings # "" /\ settings.err # NoError
             THEN ExtensionsResult(Nil, FALSE, ErrSettingsJSON)
             ELSE IF extensionRaw.protected_settings # "" /\ protectedSettingsFromKeyVault # Nil
             THEN ExtensionsResult(Nil, FALSE, ErrProtectedSettingsConflict)
             ELSE IF extensionRaw.protected_settings # "" /\ protectedSettings.err # NoError
             THEN ExtensionsResult(Nil, FALSE, ErrProtectedSettingsJSON)
             ELSE ExpandExtensionsFrom(input, i + 1,
                      Append(extensions,
                             ExpandExtensionBlock(
                                 extensionRaw,
                                 IF extensionRaw.settings # ""
                                 THEN Ptr(settings.result) ELSE Nil,
                                 IF extensionRaw.protected_settings # ""
                                 THEN Ptr(protectedSettings.result) ELSE Nil)),
                      hasHealth)

expandVirtualMachineScaleSetExtensions(input) ==
    IF Len(input) = 0
    THEN ExtensionsResult(Ptr([Extensions |-> Nil]), FALSE, NoError)
    ELSE ExpandExtensionsFrom(input, 1, <<>>, FALSE)

\* pluginsdk.HashString: a checksum of the string.  The checksum is kept
\* as what it is the checksum of: equal for equal strings, and nothing is
\* said of two different strings having the same one.
HashString(s) == <<"crc32", s>>

\* fmt.Sprintf("%t", b)
FormatBool(b) == IF b THEN "true" ELSE "false"

\* fmt.Sprintf("%s", v) of a list of strings: "[a b]"
RECURSIVE JoinedFrom(_, _)
JoinedFrom(v, i) ==
    IF i > Len(v) THEN ""
    ELSE (IF i > 1 THEN " " ELSE "") \o v[i] \o JoinedFrom(v, i + 1)

FormatSlice(v) == "[" \o JoinedFrom(v, 1) \o "]"

\* A mutant of SerializedSettings: the text is written as it is.
SerializedSettingsVerbatim(settings) ==
    IF settings # "" THEN settings \o "-" ELSE ""

\* What virtualMachineScaleSetExtensionHash writes for a settings text:
\* nothing for the empty text and for a text that does not expand, else the
\* text its expansion is serialized to.
SerializedSettings(settings) ==
    IF settings # "" /\ ExpandJsonFromString(settings).err = NoError
    THEN FlattenJsonToString(ExpandJsonFromString(settings).result) \o "-"
    ELSE ""

virtualMachineScaleSetExtensionHash(m) ==
    LET protectedSettingsFromKeyVault == m.protected_settings_from_key_vault
        buf == m.name \o "-"
               \o m.publisher \o "-"
               \o m.type \o "-"
               \o m.type_handler_version \o "-"
               \o FormatBool(m.auto_upgrade_minor_version) \o "-"
               \o Deref(m.force_update_tag) \o "-"
               \o FormatSlice(m.provision_after_extensions) \o "-"
               \o SerializedSettings(m.settings)
               \o SerializedSettings(m.protected_settings)
               \o (IF Len(protectedSettingsFromKeyVault) > 0
                   THEN protectedSettingsFromKeyVault[1].secret_url \o "-"
                        \o protectedSettingsFromKeyVault[1].source_vault_id \o "-"
                   ELSE "")
    IN  HashString(buf)

flattenProtectedSettingsFromKeyVault(input) ==
    IF input = Nil THEN <<>>
    ELSE <<[secret_url |-> Deref(input).SecretUrl,
            source_vault_id |-> From(Deref(input).SourceVault.Id, "")]>>

\* extensionsFromState: the blocks of "extension" in the prior state by
\* name, a later block of a name replacing an earlier one; d.GetOk is not
\* ok for a set without elements.
ExtensionFromState(extensions, name) ==
    LET named == SelectSeq(extensions, LAMBDA ext : ext.name = name)
    IN  IF Len(named) = 0 THEN Nil ELSE Ptr(named[Len(named)])

\* A mutant of ProtectedSettingsKept: the empty object is kept too.
ProtectedSettingsKeptUnlessEmpty(protectedSettingsFromState) ==
    protectedSettingsFromState # ""

\* The test on the protected_settings of the prior state.
ProtectedSettingsKept(protectedSettingsFromState) ==
    protectedSettingsFromState # "" /\ protectedSettingsFromState # "{}"

\* The block one extension of the response flattens to.
FlattenExtension(v, extensionsFromState) ==
    LET name == From(v.Name, "")
        hasProps == v.Properties # Nil
        props == Deref(v.Properties)
        settingsRaw == Deref(props.Settings)
        ext == ExtensionFromState(extensionsFromState, name)
    IN  [name |-> name,
         auto_upgrade_minor_version |->
             IF hasProps THEN From(props.AutoUpgradeMinorVersion, FALSE) ELSE FALSE,
         automatic_upgrade_enabled |->
             IF hasProps THEN From(props.EnableAutomaticUpgrade, FALSE) ELSE FALSE,
         force_update_tag |-> IF hasProps THEN From(props.ForceUpdateTag, "") ELSE "",
         provision_after_extensions |->
             IF hasProps /\ props.ProvisionAfterExtensions # Nil
             THEN FlattenStringSlice(props.ProvisionAfterExtensions) ELSE <<>>,
         protected_settings |->
             IF ext # Nil /\ ProtectedSettingsKept(Deref(ext).protected_settings)
             THEN Deref(ext).protected_settings ELSE "",
         protected_settings_from_key_vault |->
             flattenProtectedSettingsFromKeyVault(
                 IF hasProps THEN props.ProtectedSettingsFromKeyVault ELSE Nil),
         publisher |-> IF hasProps THEN From(props.Publisher, "") ELSE "",
         settings |-> IF hasProps /\ props.Settings # Nil
                         /\ settingsRaw.kind \in {"object", "nil"}
                      THEN FlattenJsonToString(settingsRaw) ELSE "",
         type |-> IF hasProps THEN From(props.Type, "") ELSE "",
         type_handler_version |-> IF hasProps THEN From(props.TypeHandlerVersion, "") ELSE ""]

\* d is the prior state's "extension" set, listed.
flattenVirtualMachineScaleSetExtensions(input, d) ==
    IF input = Nil \/ Deref(input).Extensions = Nil THEN [out |-> <<>>, err |-> NoError]
    ELSE [out |-> [i \in DOMAIN Deref(Deref(input).Extensions) |->
                      FlattenExtension(Deref(Deref(input).Extensions)[i], d)],
          err |-> NoError]

-----------------------------------------------------------------------------
(***************************************************************************)
(* The calls of expandVirtualMachineScaleSetExtensions: every list of at   *)
(* most MaxExtensions extension blocks the schema allows, each with one of *)
(* the JSON texts (or none) as settings and as protected_settings, with or *)
(* without a protected_settings_from_key_vault block, of a health          *)
(* extension's type or another.                                            *)
(***************************************************************************)

MaxExtensions == 2

\* The texts validation.StringIsJSON lets through as settings.
SettingsTexts == {t \in {"{\"a\":1}", "{ \"a\" : 1 }", "[1]"} : StringIsJSON(t)}

\* And as protected_settings.
ProtectedSettingsTexts == {t \in {"{}", "{\"p\":2}", "null"} : StringIsJSON(t)}

\* The two types a block at position i chooses from: the two application
\* health extensions, another extension, and a health extension's name in
\* lower case.
ExtensionTypes(i) ==
    IF i % 2 = 1 THEN <<"CustomScript", "ApplicationHealthLinux">>
    ELSE <<"applicationhealthlinux", "ApplicationHealthWindows">>

KeyVaultBlock ==
    [secret_url |-> "https://kv.vault.azure.net/secrets/s/1",
     source_vault_id |-> "/subscriptions/s/resourceGroups/g/providers/Microsoft.KeyVault/vaults/kv"]

\* The extension block at position i; the fields that only pass through
\* differ by the position.
ExtensionBlockAt(i, type, settings, protectedSettings, fromKeyVault) ==
    [name |-> "ext" \o ToString(i),
     publisher |-> "Microsoft.Azure.Extensions",
     type |-> type,
     type_handler_version |-> "2." \o ToString(i),
     auto_upgrade_minor_version |-> (i % 2 = 1),
     automatic_upgrade_enabled |-> (i % 2 = 0),
     force_update_tag |-> Ptr(IF i % 2 = 0 THEN "tag" \o ToString(i) ELSE ""),
     protected_settings |-> protectedSettings,
     protected_settings_from_key_vault |-> IF fromKeyVault THEN <<KeyVaultBlock>> ELSE <<>>,
     provision_after_extensions |-> IF i > 1 THEN <<"ext1">> ELSE <<>>,
     settings |-> settings]

ExtensionChoices(n) ==
    [1..n -> (1..2) \X ({""} \cup SettingsTexts)
                 \X ({""} \cup ProtectedSettingsTexts) \X BOOLEAN]

ExtensionList(choice) ==
    [i \in DOMAIN choice |->
        ExtensionBlockAt(i, ExtensionTypes(i)[choice[i][1]], choice[i][2], choice[i][3],
                         choice[i][4])]

\* An extension of an API response: its name (nil, or that of position
\* k), with or without properties, its settings (none, an object, or a
\* value that is no object) and the protected settings the response holds
\* (none, or an object).
ResponseExtension(i, k, hasProps, settings, protectedSettings) ==
    [Name |-> IF k = 0 THEN Nil ELSE Ptr("ext" \o ToString(k)),
     Properties |->
         IF ~hasProps THEN Nil
         ELSE Ptr([Publisher |-> Ptr("Microsoft.Azure.Extensions"),
                   Type |-> Ptr("CustomScript"),
                   TypeHandlerVersion |-> Ptr("2." \o ToString(i)),
                   AutoUpgradeMinorVersion |-> Ptr(i % 2 = 1),
                   EnableAutomaticUpgrade |-> IF i % 2 = 1 THEN Ptr(TRUE) ELSE Nil,
                   ProvisionAfterExtensions |-> IF i > 1 THEN Ptr(<<"ext1">>) ELSE Nil,
                   ForceUpdateTag |-> IF i % 2 = 0 THEN Ptr("tag") ELSE Nil,
                   Settings |-> settings,
                   ProtectedSettingsFromKeyVault |->
                       IF i % 2 = 0 THEN expandProtectedSettingsFromKeyVault(<<KeyVaultBlock>>)
                       ELSE Nil,
                   ProtectedSettings |-> protectedSettings])]

ResponseExtensionChoices(n) ==
    [1..n -> (0..2) \X BOOLEAN
                 \X {Nil, Ptr(JSONParse("{\"a\":1}")), Ptr(JSONParse("[1]"))}
                 \X {Nil, Ptr(JSONParse("{\"a\":1}"))}]

\* The extension profiles of an API response.
ResponseExtensionProfile(choice) ==
    Ptr([Extensions |->
            Ptr([i \in DOMAIN choice |->
                    ResponseExtension(i, choice[i][1], choice[i][2], choice[i][3],
                                      choice[i][4])])])

\* The "extension" sets of a prior state: of ext1 and ext2, each absent or
\* there with one of the protected_settings a state can hold.
StateExtensions ==
    LET Blocks(i) == {<<>>} \cup
                     {<<ExtensionBlockAt(i, "CustomScript", "", t, FALSE)>> :
                         t \in {"", "{}", "{\"p\":2}"}}
    IN  {b1 \o b2 : b1 \in Blocks(1), b2 \in Blocks(2)}

\* The JSON texts of the settings of a block that is hashed: texts that
\* differ in whitespace between their tokens only, texts that differ in
\* more, and the empty text of a block without settings.
HashSettingsTexts ==
    {""} \cup {t \in {"{}", "{ }", "{\"a\":1}", "{ \"a\" : 1 }", "{\"a b\":1}", "{\"p\":2}",
                     "[1]", "[ 1 ]", "null", " null "} : StringIsJSON(t)}

HashProtectedSettingsTexts ==
    {""} \cup {t \in {"{}", "{ }", "{\"p\":2}"} : StringIsJSON(t)}

InitExt ==
    /\ Calling
    /\ \/ /\ op = "expandVirtualMachineScaleSetExtensions"
          /\ \E n \in 0..MaxExtensions : \E choice \in ExtensionChoices(n) :
                 args = <<ExtensionList(choice)>>
       \/ /\ op = "virtualMachineScaleSetExtensionHash"
          /\ \E i \in 1..MaxExtensions, fromKeyVault \in BOOLEAN :
                 \E s1 \in HashSettingsTexts, s2 \in HashSettingsTexts :
                    \E p1 \in HashProtectedSettingsTexts, p2 \in HashProtectedSettingsTexts :
                       \E automaticUpgradeEnabled \in BOOLEAN :
                          args = <<ExtensionBlockAt(i, "CustomScript", s1, p1, fromKeyVault),
                                   [ExtensionBlockAt(i, "CustomScript", s2, p2, fromKeyVault)
                                       EXCEPT !.automatic_upgrade_enabled = automaticUpgradeEnabled]>>
       \/ /\ op = "flattenVirtualMachineScaleSetExtensions"
          /\ \E d \in StateExtensions :
                 \/ \E input \in {Nil, Ptr([Extensions |-> Nil])} : args = <<input, d>>
                 \/ \E n \in 0..MaxExtensions : \E choice \in ResponseExtensionChoices(n) :
                        args = <<ResponseExtensionProfile(choice), d>>

CallExpandVirtualMachineScaleSetExtensions ==
    Returns("expandVirtualMachineScaleSetExtensions",
            expandVirtualMachineScaleSetExtensions(args[1]))

CallFlattenVirtualMachineScaleSetExtensions ==
    Returns("flattenVirtualMachineScaleSetExtensions",
            flattenVirtualMachineScaleSetExtensions(args[1], args[2]))

\* The hashes of two blocks of an "extension" set.
CallVirtualMachineScaleSetExtensionHash ==
    Returns("virtualMachineScaleSetExtensionHash",
            [first |-> virtualMachineScaleSetExtensionHash(args[1]),
             second |-> virtualMachineScaleSetExtensionHash(args[2])])

NextExt ==
    \/ CallExpandVirtualMachineScaleSetExtensions
    \/ CallFlattenVirtualMachineScaleSetExtensions
    \/ CallVirtualMachineScaleSetExtensionHash

SpecExt == InitExt /\ [][NextExt]_vars

-----------------------------------------------------------------------------
(***************************************************************************)
(* Claims about the extensions.                                            *)
(***************************************************************************)

\* The block has both protected_settings and a key vault block.
ProtectedSettingsConflict(extensionRaw) ==
    /\ extensionRaw.protected_settings # ""
    /\ Len(extensionRaw.protected_settings_from_key_vault) > 0

\* The block's settings and protected_settings are valid JSON where set.
ValidJSONSettings(extensionRaw) ==
    /\ extensionRaw.settings # "" => StringIsJSON(extensionRaw.settings)
    /\ extensionRaw.protected_settings # "" => StringIsJSON(extensionRaw.protected_settings)

\* C11: expandVirtualMachineScaleSetExtensions returns an error, a nil
\* profile and hasHealthExtension = false whenever a block has a non-empty
\* protected_settings together with a protected_settings_from_key_vault
\* block; with at most one of the two in every block, and valid JSON in
\* settings and protected_settings, it succeeds.
C11_ProtectedSettingsConflict ==
    Returned("expandVirtualMachineScaleSetExtensions") =>
        /\ (\E i \in DOMAIN args[1] : ProtectedSettingsConflict(args[1][i]))
              => /\ ret.err # NoError
                 /\ ret.extensionProfile = Nil
                 /\ ~ret.hasHealthExtension
        /\ (\A i \in DOMAIN args[1] : /\ ~ProtectedSettingsConflict(args[1][i])
                                      /\ ValidJSONSettings(args[1][i]))
              => ret.err = NoError

\* What holds of the function: the conflict is always an error, and without
\* a conflict the call succeeds when every JSON text set is that of an
\* object or null.
ExtensionsSucceedOnJSONObjects ==
    Returned("expandVirtualMachineScaleSetExtensions") =>
        /\ (\E i \in DOMAIN args[1] : ProtectedSettingsConflict(args[1][i]))
              => /\ ret.err # NoError
                 /\ ret.extensionProfile = Nil
                 /\ ~ret.hasHealthExtension
        /\ (\A i \in DOMAIN args[1] :
               /\ ~ProtectedSettingsConflict(args[1][i])
               /\ \A t \in {args[1][i].settings, args[1][i].protected_settings} :
                      t # "" => JSONParse(t).kind \in {"object", "null"})
              => ret.err = NoError

\* The extensions of the response of a call of the flatten function.
ResponseExtensions ==
    IF args[1] = Nil \/ Deref(args[1]).Extensions = Nil THEN <<>>
    ELSE Deref(Deref(args[1]).Extensions)

\* The blocks of the prior state with the name of extension v.
StateBlocksNamed(v) ==
    SelectSeq(args[2], LAMBDA ext : v.Name # Nil /\ ext.name = Deref(v.Name))

\* C18: flattenVirtualMachineScaleSetExtensions never takes
\* protected_settings from the API response: for each extension of the
\* response it is the value the prior state holds for the extension of the
\* same name, and the empty string when the prior state has no extension of
\* that name or holds "" or "{}" for it; all other fields come from the
\* response.
C18_ProtectedSettingsFromState ==
    Returned("flattenVirtualMachineScaleSetExtensions") =>
        /\ ret.err = NoError
        /\ Len(ret.out) = Len(ResponseExtensions)
        /\ \A i \in DOMAIN ResponseExtensions :
              LET v == ResponseExtensions[i]
                  named == StateBlocksNamed(v)
                  stored == IF Len(named) = 0 THEN "" ELSE named[1].protected_settings
              IN  /\ ret.out[i].protected_settings = IF stored = "{}" THEN "" ELSE stored
                  /\ ret.out[i].name = From(v.Name, "")
                  /\ v.Properties # Nil =>
                        /\ ret.out[i].publisher = Deref(Deref(v.Properties).Publisher)
                        /\ ret.out[i].type = Deref(Deref(v.Properties).Type)
                        /\ ret.out[i].type_handler_version
                              = Deref(Deref(v.Properties).TypeHandlerVersion)
                        /\ ret.out[i].auto_upgrade_minor_version
                              = Deref(Deref(v.Properties).AutoUpgradeMinorVersion)
                        /\ ret.out[i].automatic_upgrade_enabled
                              = (Deref(v.Properties).EnableAutomaticUpgrade = Ptr(TRUE))
                        /\ ret.out[i].force_update_tag
                              = From(Deref(v.Properties).ForceUpdateTag, "")
                        /\ ret.out[i].settings
                              = IF Deref(v.Properties).Settings = Ptr(JSONParse("{\"a\":1}"))
                                THEN "{\"a\":1}" ELSE ""
                        /\ Len(ret.out[i].protected_settings_from_key_vault)
                              = IF Deref(v.Properties).ProtectedSettingsFromKeyVault = Nil
                                THEN 0 ELSE 1

\* The response holds protected settings for ext2 that differ from those of
\* the prior state, and the state's are returned; ext1 has "{}" in the state
\* and comes back with none.
C18_Witness ==
    /\ Returned("flattenVirtualMachineScaleSetExtensions")
    /\ Len(ResponseExtensions) = 2
    /\ ResponseExtensions[1].Name = Ptr("ext2")
    /\ ResponseExtensions[1].Properties # Nil
    /\ Deref(ResponseExtensions[1].Properties).ProtectedSettings # Nil
    /\ ResponseExtensions[2].Name = Ptr("ext1")
    /\ Len(args[2]) = 2
    /\ args[2][1].protected_settings = "{}"
    /\ ret.out[1].protected_settings = "{\"p\":2}"
    /\ ret.out[2].protected_settings = ""

\* A JSON text without the whitespace between its tokens; whitespace inside
\* a string of the text is part of the string.
WithoutInsignificantWhitespace(text) ==
    CASE text = "{ }"             -> "{}"
      [] text = "{ \"a\" : 1 }"   -> "{\"a\":1}"
      [] text = "[ 1 ]"           -> "[1]"
      [] text = " null "          -> "null"
      [] OTHER                    -> text

\* Two blocks are equal but for insignificant whitespace in settings and
\* protected_settings, and for automatic_upgrade_enabled.
EqualButFormatting(a, b) ==
    /\ [a EXCEPT !.settings = "", !.protected_settings = "", !.automatic_upgrade_enabled = FALSE]
          = [b EXCEPT !.settings = "", !.protected_settings = "", !.automatic_upgrade_enabled = FALSE]
    /\ WithoutInsignificantWhitespace(a.settings) = WithoutInsignificantWhitespace(b.settings)
    /\ WithoutInsignificantWhitespace(a.protected_settings)
          = WithoutInsignificantWhitespace(b.protected_settings)

\* C26: virtualMachineScaleSetExtensionHash gives the same hash to two
\* extension blocks that are equal except for insignificant whitespace in
\* the JSON text of settings or protected_settings, and except for
\* automatic_upgrade_enabled.
C26_HashIgnoresFormatting ==
    (Returned("virtualMachineScaleSetExtensionHash") /\ EqualButFormatting(args[1], args[2]))
        => ret.first = ret.second

\* Two blocks were hashed whose settings and protected_settings differ in
\* whitespace and whose automatic_upgrade_enabled differ, and the hashes
\* are equal.
C26_Witness ==
    /\ Returned("virtualMachineScaleSetExtensionHash")
    /\ args[1].settings = "{\"a\":1}"
    /\ args[2].settings = "{ \"a\" : 1 }"
    /\ args[1].protected_settings = "{ }"
    /\ args[2].protected_settings = "{}"
    /\ args[1].automatic_upgrade_enabled # args[2].automatic_upgrade_enabled
    /\ EqualButFormatting(args[1], args[2])
    /\ ret.first = ret.second

\* C27: when expandVirtualMachineScaleSetExtensions succeeds,
\* hasHealthExtension is true if and only if some block's type is exactly
\* "ApplicationHealthLinux" or "ApplicationHealthWindows", and Extensions
\* holds one entry per block in the order of the blocks; for an empty input
\* it returns an empty profile with Extensions unset, false and no error.
C27_HasHealthExtension ==
    Returned("expandVirtualMachineScaleSetExtensions") =>
        /\ Len(args[1]) = 0 =>
              /\ ret.err = NoError
              /\ ret.extensionProfile = Ptr([Extensions |-> Nil])
              /\ ~ret.hasHealthExtension
        /\ (Len(args[1]) > 0 /\ ret.err = NoError) =>
              LET extensions == Deref(Deref(ret.extensionProfile).Extensions)
              IN  /\ ret.hasHealthExtension <=>
                        \E i \in DOMAIN args[1] :
                            args[1][i].type \in {"ApplicationHealthLinux", "ApplicationHealthWindows"}
                  /\ Len(extensions) = Len(args[1])
                  /\ \A i \in DOMAIN args[1] :
                        /\ extensions[i].Name = Ptr(args[1][i].name)
                        /\ Deref(extensions[i].Properties).Type = Ptr(args[1][i].type)

\* Two blocks were expanded, the second of which is the Windows health
\* extension, and hasHealthExtension is true.
C27_Witness ==
    /\ Returned("expandVirtualMachineScaleSetExtensions")
    /\ ret.err = NoError
    /\ Len(args[1]) = 2
    /\ args[1][1].type = "CustomScript"
    /\ args[1][2].type = "ApplicationHealthWindows"
    /\ ret.hasHealthExtension
    /\ Len(Deref(Deref(ret.extensionProfile).Extensions)) = 2

-----------------------------------------------------------------------------
(***************************************************************************)
(* The scale set's smaller blocks: additional_capabilities,                *)
(* gallery_application (and the deprecated gallery_applications),          *)
(* scale_in_policy (scale_in) and rolling_upgrade_policy.  A flatten       *)
(* function returns its list and whether it panicked on the way; a nil     *)
(* slice and an empty one are both the empty sequence.                     *)
(***************************************************************************)

Flattened(out) == [out |-> out, panic |-> FALSE]
FlattenPanic == [out |-> <<>>, panic |-> TRUE]

ExpandVirtualMachineScaleSetAdditionalCapabilities(input) ==
    Ptr([UltraSSDEnabled |-> IF Len(input) > 0 THEN Ptr(input[1].ultra_ssd_enabled) ELSE Nil])

FlattenVirtualMachineScaleSetAdditionalCapabilities(input) ==
    IF input = Nil THEN Flattened(<<>>)
    ELSE Flattened(<<[ultra_ssd_enabled |->
                         IF Deref(input).UltraSSDEnabled # Nil
                         THEN Deref(Deref(input).UltraSSDEnabled) ELSE FALSE]>>)

expandVirtualMachineScaleSetGalleryApplication(input) ==
    IF Len(input) = 0 THEN Nil
    ELSE Ptr([i \in DOMAIN input |->
                 [PackageReferenceId |-> input[i].version_id,
                  ConfigurationReference |-> Ptr(input[i].configuration_blob_uri),
                  Order |-> Ptr(input[i].order),
                  Tags |-> Ptr(input[i].tag)]])

\* What the flatten functions of the gallery applications read of one
\* application: the three optional values, or their zero values.
GalleryApplicationValues(v) ==
    [configurationReference |-> IF v.ConfigurationReference # Nil
                                THEN Deref(v.ConfigurationReference) ELSE "",
     order |-> IF v.Order # Nil THEN Deref(v.Order) ELSE 0,
     tag |-> IF v.Tags # Nil THEN Deref(v.Tags) ELSE ""]

\* len(*input) of a nil input is a nil pointer dereference.
flattenVirtualMachineScaleSetGalleryApplication(input) ==
    IF input = Nil THEN FlattenPanic
    ELSE Flattened([i \in DOMAIN Deref(input) |->
                       LET v == Deref(input)[i]
                       IN  [version_id |-> v.PackageReferenceId,
                            configuration_blob_uri |->
                                GalleryApplicationValues(v).configurationReference,
                            order |-> GalleryApplicationValues(v).order,
                            tag |-> GalleryApplicationValues(v).tag]])

expandVirtualMachineScaleSetGalleryApplications(input) ==
    IF Len(input) = 0 THEN Nil
    ELSE Ptr([i \in DOMAIN input |->
                 [PackageReferenceId |-> input[i].package_reference_id,
                  ConfigurationReference |-> Ptr(input[i].configuration_reference_blob_uri),
                  Order |-> Ptr(input[i].order),
                  Tags |-> Ptr(input[i].tag)]])

flattenVirtualMachineScaleSetGalleryApplications(input) ==
    IF input = Nil THEN FlattenPanic
    ELSE Flattened([i \in DOMAIN Deref(input) |->
                       LET v == Deref(input)[i]
                       IN  [package_reference_id |-> v.PackageReferenceId,
                            configuration_reference_blob_uri |->
                                GalleryApplicationValues(v).configurationReference,
                            order |-> GalleryApplicationValues(v).order,
                            tag |-> GalleryApplicationValues(v).tag]])

ExpandVirtualMachineScaleSetScaleInPolicy(input) ==
    IF Len(input) = 0 THEN Nil
    ELSE Ptr([Rules |-> Ptr(<<input[1].rule>>),
              ForceDeletion |-> Ptr(input[1].force_deletion_enabled)])

\* A mutant of ScaleInRule: the last of the rules is reported.
ScaleInRuleLast(rules) ==
    IF rules # Nil /\ Len(Deref(rules)) > 0 THEN Deref(rules)[Len(Deref(rules))] ELSE "Default"

\* The rule FlattenVirtualMachineScaleSetScaleInPolicy reports.
ScaleInRule(rules) ==
    IF rules # Nil /\ Len(Deref(rules)) > 0 THEN Deref(rules)[1] ELSE "Default"

FlattenVirtualMachineScaleSetScaleInPolicy(input) ==
    IF input = Nil THEN Flattened(<<>>)
    ELSE Flattened(<<[rule |-> ScaleInRule(Deref(input).Rules),
                      force_deletion_enabled |->
                          IF Deref(input).ForceDeletion # Nil
                          THEN Deref(Deref(input).ForceDeletion) ELSE FALSE]>>)

ErrCrossZoneUpgrades ==
    "rolling_upgrade_policy.0.cross_zone_upgrades_enabled can only be set to true when zones is specified"

\* A mutant of CrossZoneUpgradesRejected: the flag's value is not looked at.
CrossZoneUpgradesRejectedAlways(isZonal, enableCrossZoneUpgrade) ==
    ~isZonal

\* The else-if of ExpandVirtualMachineScaleSetRollingUpgradePolicy.
CrossZoneUpgradesRejected(isZonal, enableCrossZoneUpgrade) ==
    ~isZonal /\ enableCrossZoneUpgrade

ExpandVirtualMachineScaleSetRollingUpgradePolicy(input, isZonal) ==
    IF Len(input) = 0 THEN [out |-> Nil, err |-> NoError]
    ELSE LET raw == input[1]
             enableCrossZoneUpgrade == raw.cross_zone_upgrades_enabled
             rollingUpgradePolicy ==
                 [MaxBatchInstancePercent |-> Ptr(raw.max_batch_instance_percent),
                  MaxUnhealthyInstancePercent |-> Ptr(raw.max_unhealthy_instance_percent),
                  MaxUnhealthyUpgradedInstancePercent |->
                      Ptr(raw.max_unhealthy_upgraded_instance_percent),
                  PauseTimeBetweenBatches |-> Ptr(raw.pause_time_between_batches),
                  PrioritizeUnhealthyInstances |->
                      Ptr(raw.prioritize_unhealthy_instances_enabled),
                  EnableCrossZoneUpgrade |->
                      IF isZonal THEN Ptr(enableCrossZoneUpgrade) ELSE Nil]
         IN  IF CrossZoneUpgradesRejected(isZonal, enableCrossZoneUpgrade)
             THEN [out |-> Nil, err |-> ErrCrossZoneUpgrades]
             ELSE [out |-> Ptr(rollingUpgradePolicy), err |-> NoError]

\* A mutant of FlattenVirtualMachineScaleSetScheduledEventsProfile: no block
\* for a response without the profile.
FlattenVirtualMachineScaleSetScheduledEventsProfileOrNone(input) ==
    IF input = Nil \/ Deref(input).TerminateNotificationProfile = Nil THEN <<>>
    ELSE LET profile == Deref(Deref(input).TerminateNotificationProfile)
         IN  <<[enabled |-> From(profile.Enable, FALSE),
                timeout |-> From(profile.NotBeforeTimeout, "PT5M")]>>

FlattenVirtualMachineScaleSetScheduledEventsProfile(input) ==
    LET hasProfile == input # Nil /\ Deref(input).TerminateNotificationProfile # Nil
        profile == Deref(Deref(input).TerminateNotificationProfile)
        enabled == IF hasProfile /\ profile.Enable # Nil
                   THEN Deref(profile.Enable) ELSE FALSE
        timeout == IF hasProfile /\ profile.NotBeforeTimeout # Nil
                   THEN Deref(profile.NotBeforeTimeout) ELSE "PT5M"
    IN  <<[enabled |-> enabled, timeout |-> timeout]>>

FlattenVirtualMachineScaleSetAutomaticRepairsPolicy(input) ==
    LET enabled == IF input # Nil /\ Deref(input).Enabled # Nil
                   THEN Deref(Deref(input).Enabled) ELSE FALSE
        gracePeriod == IF input # Nil /\ Deref(input).GracePeriod # Nil
                       THEN Deref(Deref(input).GracePeriod) ELSE "PT30M"
    IN  <<[enabled |-> enabled, grace_period |-> gracePeriod]>>

-----------------------------------------------------------------------------
(***************************************************************************)
(* The calls of the smaller blocks' functions.  A round trip is one call:  *)
(* the configuration is expanded and the result flattened.                 *)
(***************************************************************************)

MaxGalleryApplications == 2
MaxScaleInRules == 2

\* The additional_capabilities lists of the schema (MaxItems: 1).
AdditionalCapabilitiesLists ==
    {<<>>} \cup {<<[ultra_ssd_enabled |-> b]>> : b \in BOOLEAN}

\* What a gallery application block is made of: the version's ID, the
\* optional URI of a configuration blob, the order and the optional tag.
GalleryApplicationChoices(n) ==
    [1..n -> {"version1", "version2"} \X {"", "https://account.blob.core.windows.net/c/s.config"}
                 \X {0, 7} \X {"", "tag"}]

GalleryApplicationList(choice) ==
    [i \in DOMAIN choice |->
        [version_id |-> choice[i][1], configuration_blob_uri |-> choice[i][2],
         order |-> choice[i][3], tag |-> choice[i][4]]]

GalleryApplicationsList(choice) ==
    [i \in DOMAIN choice |->
        [package_reference_id |-> choice[i][1],
         configuration_reference_blob_uri |-> choice[i][2],
         order |-> choice[i][3], tag |-> choice[i][4]]]

ScaleInRules == {"Default", "NewestVM", "OldestVM"}

\* The scale-in policies of an API response.
ScaleInPolicies ==
    {Nil} \cup
    {Ptr(y) : y \in [Rules : {Nil} \cup {Ptr(r) : r \in UNION {[1..n -> ScaleInRules] :
                                                               n \in 0..MaxScaleInRules}},
                     ForceDeletion : {Nil, Ptr(FALSE), Ptr(TRUE)}]}

\* The rolling_upgrade_policy lists of the schema (MaxItems: 1).
RollingUpgradePolicyLists ==
    {<<>>} \cup
    {<<b>> : b \in [cross_zone_upgrades_enabled : BOOLEAN,
                    max_batch_instance_percent : {20, 100},
                    max_unhealthy_instance_percent : {20},
                    max_unhealthy_upgraded_instance_percent : {5},
                    pause_time_between_batches : {"PT0S", "PT30S"},
                    prioritize_unhealthy_instances_enabled : BOOLEAN]}

\* The scheduled events profiles of an API response: none, one without a
\* termination notification, and one with a notification whose fields are
\* set or not.
ScheduledEventsProfiles ==
    {Nil, Ptr([TerminateNotificationProfile |-> Nil])} \cup
    {Ptr([TerminateNotificationProfile |-> Ptr(n)]) :
        n \in [Enable : {Nil, Ptr(FALSE), Ptr(TRUE)},
               NotBeforeTimeout : {Nil, Ptr("PT5M"), Ptr("PT10M"), Ptr("PT15M")}]}

\* The automatic repairs policies of an API response.
AutomaticRepairsPolicies ==
    {Nil} \cup
    {Ptr(y) : y \in [Enabled : {Nil, Ptr(FALSE), Ptr(TRUE)},
                     GracePeriod : {Nil, Ptr("PT10M"), Ptr("PT30M"), Ptr("PT90M")},
                     RepairAction : {Nil, Ptr("Replace")}]}

InitBlocks ==
    /\ Calling
    /\ \/ /\ op = "AdditionalCapabilities"
          /\ \E x \in AdditionalCapabilitiesLists : args = <<x>>
       \/ /\ op = "GalleryApplication"
          /\ \E n \in 0..MaxGalleryApplications : \E choice \in GalleryApplicationChoices(n) :
                args = <<GalleryApplicationList(choice)>>
       \/ /\ op = "GalleryApplications"
          /\ \E n \in 0..MaxGalleryApplications : \E choice \in GalleryApplicationChoices(n) :
                args = <<GalleryApplicationsList(choice)>>
       \/ /\ op = "ScaleInPolicy"
          /\ \E y \in ScaleInPolicies : args = <<y>>
       \/ /\ op = "ExpandVirtualMachineScaleSetRollingUpgradePolicy"
          /\ \E x \in RollingUpgradePolicyLists, isZonal \in BOOLEAN : args = <<x, isZonal>>
       \/ /\ op = "FlattenVirtualMachineScaleSetScheduledEventsProfile"
          /\ \E y \in ScheduledEventsProfiles : args = <<y>>
       \/ /\ op = "FlattenVirtualMachineScaleSetAutomaticRepairsPolicy"
          /\ \E y \in AutomaticRepairsPolicies : args = <<y>>

\* Flatten(Expand(x))
CallAdditionalCapabilities ==
    Returns("AdditionalCapabilities",
            FlattenVirtualMachineScaleSetAdditionalCapabilities(
                ExpandVirtualMachineScaleSetAdditionalCapabilities(args[1])))

\* flatten(expand(x))
CallGalleryApplication ==
    Returns("GalleryApplication",
            flattenVirtualMachineScaleSetGalleryApplication(
                expandVirtualMachineScaleSetGalleryApplication(args[1])))

CallGalleryApplications ==
    Returns("GalleryApplications",
            flattenVirtualMachineScaleSetGalleryApplications(
                expandVirtualMachineScaleSetGalleryApplications(args[1])))

\* Flatten(y), and Flatten(Expand(Flatten(y)))
CallScaleInPolicy ==
    LET flattened == FlattenVirtualMachineScaleSetScaleInPolicy(args[1])
    IN  Returns("ScaleInPolicy",
                [flattened |-> flattened,
                 again |-> FlattenVirtualMachineScaleSetScaleInPolicy(
                               ExpandVirtualMachineScaleSetScaleInPolicy(flattened.out))])

CallExpandVirtualMachineScaleSetRollingUpgradePolicy ==
    Returns("ExpandVirtualMachineScaleSetRollingUpgradePolicy",
            ExpandVirtualMachineScaleSetRollingUpgradePolicy(args[1], args[2]))

\* The block returned is kept as out: the call never returns an empty list
\* by itself, and a call that has not returned holds none.
CallFlattenVirtualMachineScaleSetScheduledEventsProfile ==
    Returns("FlattenVirtualMachineScaleSetScheduledEventsProfile",
            [out |-> FlattenVirtualMachineScaleSetScheduledEventsProfile(args[1])])

CallFlattenVirtualMachineScaleSetAutomaticRepairsPolicy ==
    Returns("FlattenVirtualMachineScaleSetAutomaticRepairsPolicy",
            [out |-> FlattenVirtualMachineScaleSetAutomaticRepairsPolicy(args[1])])

NextBlocks ==
    \/ CallAdditionalCapabilities
    \/ CallGalleryApplication
    \/ CallGalleryApplications
    \/ CallScaleInPolicy
    \/ CallExpandVirtualMachineScaleSetRollingUpgradePolicy
    \/ CallFlattenVirtualMachineScaleSetScheduledEventsProfile
    \/ CallFlattenVirtualMachineScaleSetAutomaticRepairsPolicy

SpecBlocks == InitBlocks /\ [][NextBlocks]_vars

-----------------------------------------------------------------------------
(***************************************************************************)
(* Claims about the smaller blocks.                                        *)
(***************************************************************************)

\* C12: ExpandVirtualMachineScaleSetRollingUpgradePolicy returns an error
\* when cross_zone_upgrades_enabled is true and isZonal is false; when
\* isZonal is true EnableCrossZoneUpgrade is the configured value; when
\* isZonal is false and the flag is false EnableCrossZoneUpgrade is unset;
\* an empty input yields no policy and no error.
C12_CrossZoneUpgrades ==
    Returned("ExpandVirtualMachineScaleSetRollingUpgradePolicy") =>
        IF Len(args[1]) = 0 THEN ret.out = Nil /\ ret.err = NoError
        ELSE LET flag == args[1][1].cross_zone_upgrades_enabled
                 isZonal == args[2]
             IN  /\ (flag /\ ~isZonal) => (ret.err = ErrCrossZoneUpgrades /\ ret.out = Nil)
                 /\ isZonal => /\ ret.err = NoError
                               /\ Deref(ret.out).EnableCrossZoneUpgrade = Ptr(flag)
                 /\ (~isZonal /\ ~flag) => /\ ret.err = NoError
                                           /\ Deref(ret.out).EnableCrossZoneUpgrade = Nil

\* The flag was true for a scale set without zones, and the call failed.
C12_Witness ==
    /\ Returned("ExpandVirtualMachineScaleSetRollingUpgradePolicy")
    /\ Len(args[1]) = 1
    /\ args[1][1].cross_zone_upgrades_enabled
    /\ ~args[2]
    /\ ret.err = ErrCrossZoneUpgrades

\* C13: for every gallery_application list x of the schema, the empty list
\* included, flatten(expand(x)) completes without failure and returns the
\* same elements in the same order (the empty list for the empty x); the
\* same holds of the deprecated gallery_applications pair.
C13_GalleryApplicationRoundTrip ==
    \A o \in {"GalleryApplication", "GalleryApplications"} :
        Returned(o) => (~ret.panic /\ ret.out = args[1])

\* What holds of both pairs: the round trip of a list that is not empty.
GalleryApplicationRoundTripNonEmpty ==
    \A o \in {"GalleryApplication", "GalleryApplications"} :
        (Returned(o) /\ Len(args[1]) > 0) => (~ret.panic /\ ret.out = args[1])

\* C15: for every additional_capabilities list x of length 0 or 1,
\* Flatten(Expand(x)) equals x: the empty configuration flattens back to
\* the empty list and a block keeps its ultra_ssd_enabled.
C15_AdditionalCapabilitiesRoundTrip ==
    Returned("AdditionalCapabilities") => (~ret.panic /\ ret.out = args[1])

\* What holds: the round trip of a block, and the one block with
\* ultra_ssd_enabled = false that the empty list comes back as.
AdditionalCapabilitiesRoundTripOfBlock ==
    Returned("AdditionalCapabilities") =>
        /\ ~ret.panic
        /\ Len(args[1]) = 1 => ret.out = args[1]
        /\ Len(args[1]) = 0 => ret.out = <<[ultra_ssd_enabled |-> FALSE]>>

\* C17: for every scale-in policy y of the API (nil, Rules nil or empty or
\* of one or several entries, ForceDeletion nil or set),
\* Flatten(Expand(Flatten(y))) equals Flatten(y); Flatten reports the first
\* rule, or Default when there is none.
C17_ScaleInPolicyStable ==
    Returned("ScaleInPolicy") =>
        /\ ret.again = ret.flattened
        /\ ~ret.flattened.panic
        /\ args[1] # Nil =>
              LET rules == Deref(args[1]).Rules
              IN  ret.flattened.out[1].rule =
                      IF rules = Nil \/ Deref(rules) = <<>> THEN "Default" ELSE Deref(rules)[1]

\* A response of two different rules.
C17_Witness ==
    /\ Returned("ScaleInPolicy")
    /\ args[1] # Nil
    /\ Deref(args[1]).Rules = Ptr(<<"OldestVM", "NewestVM">>)
    /\ ret.flattened.out[1].rule = "OldestVM"
    /\ ret.again = ret.flattened

\* The value of a field of a response, or the default when the response,
\* the object that holds the field or the field itself is not there.
ValueOr(holder, field, default) ==
    IF holder # Nil /\ Deref(holder)[field] # Nil THEN Deref(Deref(holder)[field]) ELSE default

\* C23: FlattenVirtualMachineScaleSetScheduledEventsProfile and
\* FlattenVirtualMachineScaleSetAutomaticRepairsPolicy return exactly one
\* block, for a nil value too: enabled is false, timeout "PT5M" and
\* grace_period "PT30M" where the response leaves the profile or the field
\* out, and the values of the response otherwise.
C23_FlattenDefaults ==
    /\ Returned("FlattenVirtualMachineScaleSetScheduledEventsProfile") =>
          LET profile == IF args[1] # Nil THEN Deref(args[1]).TerminateNotificationProfile ELSE Nil
          IN  /\ Len(ret.out) = 1
              /\ ret.out[1].enabled = ValueOr(profile, "Enable", FALSE)
              /\ ret.out[1].timeout = ValueOr(profile, "NotBeforeTimeout", "PT5M")
    /\ Returned("FlattenVirtualMachineScaleSetAutomaticRepairsPolicy") =>
          /\ Len(ret.out) = 1
          /\ ret.out[1].enabled = ValueOr(args[1], "Enabled", FALSE)
          /\ ret.out[1].grace_period = ValueOr(args[1], "GracePeriod", "PT30M")

\* The response had no scheduled events profile, and one block of the
\* defaults was returned.
C23_Witness ==
    /\ Returned("FlattenVirtualMachineScaleSetScheduledEventsProfile")
    /\ args[1] = Nil
    /\ ret.out = <<[enabled |-> FALSE, timeout |-> "PT5M"]>>

-----------------------------------------------------------------------------
(***************************************************************************)
(* validate.LinuxAdminPassword.  The value validated is a string (a        *)
(* sequence of characters) or a value of another type.                     *)
(***************************************************************************)

StringValue(v) == [isString |-> TRUE, value |-> v]
OtherValue(v) == [isString |-> FALSE, value |-> v]

Digits == <<"0","1","2","3","4","5","6","7","8","9">>

\* The white space the model's strings can hold.
IsSpace(c) == c \in {" ", "\t"}

\* strings.TrimSpace: the string without its leading and trailing space
TrimSpace(v) ==
    LET kept == {i \in DOMAIN v : ~IsSpace(v[i])}
    IN  IF kept = {} THEN <<>>
        ELSE SubSeq(v, CHOOSE i \in kept : \A j \in kept : i <= j,
                       CHOOSE i \in kept : \A j \in kept : i >= j)

\* \w of a regular expression
IsWordChar(c) ==
    IndexOf(c, LowerLetters) > 0 \/ IndexOf(c, UpperLetters) > 0 \/ IndexOf(c, Digits) > 0
        \/ c = "_"

\* A mutant of CharMatches: the last class is [\W_].
CharMatchesNonWordOrUnderscore(test, c) ==
    CASE test = "[a-z]"        -> IndexOf(c, LowerLetters) > 0
      [] test = "[A-Z]"        -> IndexOf(c, UpperLetters) > 0
      [] test = "[0-9]"        -> IndexOf(c, Digits) > 0
      [] test = "[^\\d\\w]"    -> ~IsWordChar(c) \/ c = "_"

\* Whether a character is in the class a test of LinuxAdminPassword names.
CharMatches(test, c) ==
    CASE test = "[a-z]"        -> IndexOf(c, LowerLetters) > 0
      [] test = "[A-Z]"        -> IndexOf(c, UpperLetters) > 0
      [] test = "[0-9]"        -> IndexOf(c, Digits) > 0
      [] test = "[^\\d\\w]"    -> ~(IndexOf(c, Digits) > 0) /\ ~IsWordChar(c)

\* regexp.MatchString of a one-class expression: some character is in it
MatchString(test, v) == \E i \in DOMAIN v : CharMatches(test, v[i])

disallowedNames ==
    <<<<"a","b","c","@","1","2","3">>,
      <<"P","@","$","$","w","0","r","d">>,
      <<"P","@","s","s","w","0","r","d">>,
      <<"P","@","s","s","w","o","r","d","1","2","3">>,
      <<"P","a","$","$","w","o","r","d">>,
      <<"p","a","s","s","@","w","o","r","d","1">>,
      <<"P","a","s","s","w","o","r","d","!">>,
      <<"P","a","s","s","w","o","r","d","1">>,
      <<"P","a","s","s","w","o","r","d","2","2">>,
      <<"i","l","o","v","e","y","o","u","!">>>>

PasswordTests == <<"[a-z]", "[A-Z]", "[0-9]", "[^\\d\\w]">>

\* The errors, by what they say.
ErrNotAString == "expected to be a string but it wasn't"
ErrEmpty == "must not be empty"
ErrLength == "most be between 6 and 72 characters"
ErrDisallowed == "specified is not allowed"
ErrConditions == "has to fulfill 3 out of these 4 conditions"

LinuxAdminPassword(i, k) ==
    LET v == i.value
        conditions == Cardinality({t \in DOMAIN PasswordTests : MatchString(PasswordTests[t], v)})
        disallowed == SelectSeq(disallowedNames, LAMBDA value : value = v)
    IN  IF ~i.isString THEN [warnings |-> <<>>, errors |-> <<ErrNotAString>>]
        ELSE IF TrimSpace(v) = <<>> THEN [warnings |-> <<>>, errors |-> <<ErrEmpty>>]
        ELSE [warnings |-> <<>>,
              errors |-> (IF Len(v) < 6 \/ Len(v) > 72 THEN <<ErrLength>> ELSE <<>>)
                         \o [n \in DOMAIN disallowed |-> ErrDisallowed]
                         \o (IF conditions < 3 THEN <<ErrConditions>> ELSE <<>>)]

-----------------------------------------------------------------------------
(***************************************************************************)
(* The calls of the validation functions.  A password is a few characters  *)
(* of every class, then one character repeated up to a length at or next   *)
(* to a bound of the length rule; or a disallowed password; or no string.  *)
(***************************************************************************)

MaxPasswordCore == 3

PasswordAlphabet == {"a", "Z", "7", "_", "!", " ", "\t"}

PasswordLengths == {0, 5, 6, 72, 73}

Padded(core, pad, n) ==
    IF n > Len(core) THEN core \o [x \in 1..(n - Len(core)) |-> pad] ELSE core

InitValidate ==
    /\ Calling
    /\ op = "LinuxAdminPassword"
    /\ \/ \E n \in 0..MaxPasswordCore : \E core \in [1..n -> PasswordAlphabet] :
             \E pad \in PasswordAlphabet, length \in PasswordLengths :
                args = <<StringValue(Padded(core, pad, length)), "admin_password">>
       \/ \E n \in DOMAIN disallowedNames :
             \/ args = <<StringValue(disallowedNames[n]), "admin_password">>
             \/ args = <<StringValue(disallowedNames[n] \o <<"x">>), "admin_password">>
       \/ \E v \in {0, 123456} : args = <<OtherValue(v), "admin_password">>

CallLinuxAdminPassword ==
    Returns("LinuxAdminPassword", LinuxAdminPassword(args[1], args[2]))

NextValidate ==
    \/ CallLinuxAdminPassword

SpecValidate == InitValidate /\ [][NextValidate]_vars

-----------------------------------------------------------------------------
(***************************************************************************)
(* Claims about the validation functions.                                  *)
(***************************************************************************)

\* The string validated, where the value is one.
Password == args[1].value

\* Some character of the password is one of these.
HasOneOf(chars) == \E i \in DOMAIN Password : Password[i] \in chars

Letters(letters) == {letters[i] : i \in DOMAIN letters}

\* A special character: neither a letter nor a digit, and other than "_"
\* when the underscore does not count.
HasSpecial(underscoreCounts) ==
    \E i \in DOMAIN Password :
        \/ Password[i] \notin Letters(LowerLetters) \cup Letters(UpperLetters)
                                  \cup Letters(Digits) \cup {"_"}
        \/ underscoreCounts /\ Password[i] = "_"

\* How many of the four conditions the password fulfils.
ConditionsFulfilled(underscoreCounts) ==
    Cardinality({c \in {"lower", "upper", "digit", "special"} :
                    CASE c = "lower"   -> HasOneOf(Letters(LowerLetters))
                      [] c = "upper"   -> HasOneOf(Letters(UpperLetters))
                      [] c = "digit"   -> HasOneOf(Letters(Digits))
                      [] c = "special" -> HasSpecial(underscoreCounts)})

IsBlank == \A i \in DOMAIN Password : Password[i] \in {" ", "\t"}

C20_UnderscoreIsSpecial ==
    (Returned("LinuxAdminPassword") /\ args[1].isString /\ ~IsBlank
        /\ Len(Password) >= 6 /\ Len(Password) <= 72) =>
        (ConditionsFulfilled(TRUE) >= 3 =>
            \A n \in DOMAIN ret.errors : ret.errors[n] # ErrConditions)

-----------------------------------------------------------------------------
(***************************************************************************)
(* The API clients.  In this part an error is a pointer: Nil for no error, *)
(* or Ptr of a record of what the error holds, so that an error that wraps *)
(* another one keeps it.  An HTTP response is Nil or Ptr of its status.    *)
(***************************************************************************)

\* errors.New
Error(message) == Ptr([Message |-> message])

\* fmt.Errorf(format, err) of a format with one verb
Errorf(format, err) == Ptr([Format |-> format, Arg |-> err])

HttpResponse(statusCode) == Ptr([StatusCode |-> statusCode])

(***************************************************************************)
(* expressroutecircuitconnections: List, ListComplete and                  *)
(* ListCompleteMatchingPredicate.                                          *)
(***************************************************************************)

\* ExpressRouteCircuitConnectionOperationPredicate.Matches: every field the
\* predicate sets is set in the input to the same value.
Matches(predicate, input) ==
    \A field \in {"Etag", "Id", "Name", "Type"} :
        predicate[field] # Nil =>
            (input[field] # Nil /\ Deref(predicate[field]) = Deref(input[field]))

\* ExpressRouteCircuitConnectionOperationPredicate{}
EmptyPredicate == [Etag |-> Nil, Id |-> Nil, Name |-> Nil, Type |-> Nil]

ListOperationResponse(httpResponse, model, err) ==
    [HttpResponse |-> httpResponse, Model |-> model, err |-> err]

\* List, given what the transport does: the error of NewRequest, the
\* response and the error of ExecutePaged, the error of Unmarshal and the
\* "value" of the body.
List(transport) ==
    IF transport.newRequestErr # Nil
    THEN ListOperationResponse(Nil, Nil, transport.newRequestErr)
    ELSE IF transport.executeErr # Nil
    THEN ListOperationResponse(transport.resp, Nil, transport.executeErr)
    ELSE IF transport.unmarshalErr # Nil
    THEN ListOperationResponse(transport.resp, Nil, transport.unmarshalErr)
    ELSE ListOperationResponse(transport.resp, transport.values, Nil)

ListCompleteResult(latestHttpResponse, items, err) ==
    [LatestHttpResponse |-> latestHttpResponse, Items |-> items, err |-> err]

\* A mutant of MatchingItemsAppended: the element is put in front of the
\* items kept so far.
MatchingItemsPrepended(items, v) == <<v>> \o items

\* append(items, v)
MatchingItemsAppended(items, v) == Append(items, v)

\* The loop of ListCompleteMatchingPredicate over the model from element i
\* on, items being the elements kept so far.
RECURSIVE MatchingItemsFrom(_, _, _, _)
MatchingItemsFrom(model, predicate, i, items) ==
    IF i > Len(model) THEN items
    ELSE MatchingItemsFrom(model, predicate, i + 1,
                           IF Matches(predicate, model[i])
                           THEN MatchingItemsAppended(items, model[i]) ELSE items)

ListCompleteMatchingPredicate(transport, predicate) ==
    LET resp == List(transport)
    IN  IF resp.err # Nil
        THEN ListCompleteResult(Nil, <<>>, Errorf("loading results: %+v", resp.err))
        ELSE ListCompleteResult(resp.HttpResponse,
                                IF resp.Model # Nil
                                THEN MatchingItemsFrom(Deref(resp.Model), predicate, 1, <<>>)
                                ELSE <<>>,
                                Nil)

ListComplete(transport) == ListCompleteMatchingPredicate(transport, EmptyPredicate)

(***************************************************************************)
(* The generated clients: synapse.WorkspaceAadAdminsClient and             *)
(* cdn.RuleSetsClient.  An operation validates its parameters, prepares    *)
(* the request, sends it and, unless it returns a future, handles the      *)
(* response; the stages it has run are kept in the trace of the call.      *)
(***************************************************************************)

ResourceGroupNamePattern == "^[-\\w\\._\\(\\)]+$"

\* A mutant of ResourceGroupNameConstraints: the pattern is not required.
ResourceGroupNameConstraintsNoPattern ==
    <<[Target |-> "resourceGroupName", Name |-> "MaxLength", Rule |-> 90],
      [Target |-> "resourceGroupName", Name |-> "MinLength", Rule |-> 1]>>

\* The constraints the operations put on resourceGroupName, in the order
\* they are written.
ResourceGroupNameConstraints ==
    <<[Target |-> "resourceGroupName", Name |-> "MaxLength", Rule |-> 90],
      [Target |-> "resourceGroupName", Name |-> "MinLength", Rule |-> 1],
      [Target |-> "resourceGroupName", Name |-> "Pattern", Rule |-> ResourceGroupNamePattern]>>

\* The constraint the synapse operations put on client.SubscriptionID.
SubscriptionIDConstraints ==
    <<[Target |-> "client.SubscriptionID", Name |-> "MinLength", Rule |-> 1]>>

\* Whether a character is in the class [-\w\._\(\)].
ResourceGroupNameChar(c) == c \in {"-", ".", "_", "(", ")"} \/ IsWordChar(c)

\* regexp.MatchString(ResourceGroupNamePattern, s): one character or more,
\* each of the class, from the start of s to its end.
MatchResourceGroupNamePattern(s) ==
    Len(s) >= 1 /\ \A i \in DOMAIN s : ResourceGroupNameChar(s[i])

\* validateString: whether a string violates a constraint.  len(s) counts
\* bytes, and every character of the model's strings is one byte.
ConstraintViolated(s, constraint) ==
    CASE constraint.Name = "MaxLength" -> Len(s) > constraint.Rule
      [] constraint.Name = "MinLength" -> Len(s) < constraint.Rule
      [] constraint.Name = "Pattern"   -> ~MatchResourceGroupNamePattern(s)

\* validation.Validate: the error of the first constraint violated, items
\* and their constraints being taken in order; nil when none is.
Validate(m) ==
    LET failing == {p \in (DOMAIN m) \X (1..3) :
                       /\ p[2] \in DOMAIN m[p[1]].Constraints
                       /\ ConstraintViolated(m[p[1]].TargetValue, m[p[1]].Constraints[p[2]])}
        first == CHOOSE p \in failing :
                     \A q \in failing : p[1] < q[1] \/ (p[1] = q[1] /\ p[2] <= q[2])
    IN  IF failing = {} THEN Nil
        ELSE Ptr([Target |-> m[first[1]].Constraints[first[2]].Target,
                  Constraint |-> m[first[1]].Constraints[first[2]].Name])

\* validation.NewError
NewError(packageType, method, err) ==
    Ptr([PackageType |-> packageType, Method |-> method, Validation |-> Deref(err)])

\* autorest.NewErrorWithError
NewErrorWithError(original, packageType, method, resp, message) ==
    Ptr([Original |-> original, PackageType |-> packageType, Method |-> method,
         Response |-> resp, Message |-> message])

\* The public operations of the two clients: the names they give their
\* errors, whether they validate client.SubscriptionID, whether they handle
\* the response themselves (the others return a future), and the function
\* that fetches the next page of a paged result.
ClientOperations ==
    { [op |-> "WorkspaceAadAdminsClient.CreateOrUpdate", packageType |-> "synapse.WorkspaceAadAdminsClient",
       method |-> "CreateOrUpdate", validatesSubscriptionID |-> TRUE, responds |-> FALSE, nextResults |-> ""],
      [op |-> "WorkspaceAadAdminsClient.Delete", packageType |-> "synapse.WorkspaceAadAdminsClient",
       method |-> "Delete", validatesSubscriptionID |-> TRUE, responds |-> FALSE, nextResults |-> ""],
      [op |-> "WorkspaceAadAdminsClient.Get", packageType |-> "synapse.WorkspaceAadAdminsClient",
       method |-> "Get", validatesSubscriptionID |-> TRUE, responds |-> TRUE, nextResults |-> ""],
      [op |-> "RuleSetsClient.Create", packageType |-> "cdn.RuleSetsClient",
       method |-> "Create", validatesSubscriptionID |-> FALSE, responds |-> FALSE, nextResults |-> ""],
      [op |-> "RuleSetsClient.Delete", packageType |-> "cdn.RuleSetsClient",
       method |-> "Delete", validatesSubscriptionID |-> FALSE, responds |-> FALSE, nextResults |-> ""],
      [op |-> "RuleSetsClient.Get", packageType |-> "cdn.RuleSetsClient",
       method |-> "Get", validatesSubscriptionID |-> FALSE, responds |-> TRUE, nextResults |-> ""],
      [op |-> "RuleSetsClient.ListByProfile", packageType |-> "cdn.RuleSetsClient",
       method |-> "ListByProfile", validatesSubscriptionID |-> FALSE, responds |-> TRUE,
       nextResults |-> "listByProfileNextResults"],
      [op |-> "RuleSetsClient.ListResourceUsage", packageType |-> "cdn.RuleSetsClient",
       method |-> "ListResourceUsage", validatesSubscriptionID |-> FALSE, responds |-> TRUE,
       nextResults |-> "listResourceUsageNextResults"] }

ClientOps == {o.op : o \in ClientOperations}

Operation(o) == CHOOSE operation \in ClientOperations : operation.op = o

\* The validations of an operation called with the parameters p.
Validations(operation, p) ==
    (IF operation.validatesSubscriptionID
     THEN <<[TargetValue |-> p.SubscriptionID, Constraints |-> SubscriptionIDConstraints]>>
     ELSE <<>>)
    \o <<[TargetValue |-> p.resourceGroupName, Constraints |-> ResourceGroupNameConstraints]>>

\* The call so far: the stages run, the response received and the error.
ClientResult(trace, resp, err, pages) ==
    [trace |-> trace, Response |-> resp, err |-> err, pages |-> pages]

-----------------------------------------------------------------------------
(***************************************************************************)
(* The calls of the API clients.  What the network does is chosen when a   *)
(* stage runs: a stage fails or not, a response has a status, a page of a  *)
(* list has elements and a link to the next page or not.                   *)
(***************************************************************************)

\* The most elements of a List response.
MaxListItems == 3

\* The most pages a paged operation fetches after the first one.
MaxNextPages == 2

\* The connections a List response is made of: two of the same type, and
\* one with nothing set but its name.
ConnectionItems ==
    { [Etag |-> Ptr("e1"), Id |-> Ptr("/connections/a"), Name |-> Ptr("a"), Type |-> Ptr("T")],
      [Etag |-> Ptr("e2"), Id |-> Ptr("/connections/b"), Name |-> Ptr("b"), Type |-> Ptr("T")],
      [Etag |-> Nil, Id |-> Nil, Name |-> Ptr("a"), Type |-> Nil] }

\* The predicates: the empty one, one field, two fields, and a value that
\* no connection has.
ConnectionPredicates ==
    { EmptyPredicate,
      [EmptyPredicate EXCEPT !.Name = Ptr("a")],
      [EmptyPredicate EXCEPT !.Type = Ptr("T")],
      [EmptyPredicate EXCEPT !.Name = Ptr("a"), !.Etag = Ptr("e1")],
      [EmptyPredicate EXCEPT !.Id = Ptr("/connections/none")] }

ErrNewRequest == Error("building request")
ErrExecute == Error("executing request")
ErrUnmarshal == Error("unmarshalling response")

\* What the transport does for a List whose body holds values: a failure
\* of one of its three steps, or the answer.
ListTransports(values) ==
    { [newRequestErr |-> ErrNewRequest, executeErr |-> Nil, unmarshalErr |-> Nil,
       resp |-> Nil, values |-> Nil],
      [newRequestErr |-> Nil, executeErr |-> ErrExecute, unmarshalErr |-> Nil,
       resp |-> Nil, values |-> Nil],
      [newRequestErr |-> Nil, executeErr |-> ErrExecute, unmarshalErr |-> Nil,
       resp |-> HttpResponse(500), values |-> Nil],
      [newRequestErr |-> Nil, executeErr |-> Nil, unmarshalErr |-> ErrUnmarshal,
       resp |-> HttpResponse(200), values |-> Nil],
      [newRequestErr |-> Nil, executeErr |-> Nil, unmarshalErr |-> Nil,
       resp |-> HttpResponse(200), values |-> values] }

ErrPrepare == Error("preparing the request failed")
ErrSend == Error("sending the request failed")
ErrStatusCode == Error("the response has a status code that is not expected")
ErrUnmarshalJSON == Error("the body of the response is not the JSON expected")

\* What sending a request gives: no response and an error, a response and
\* an error, or a response of some status.
SendOutcomes ==
    { [resp |-> Nil, err |-> ErrSend],
      [resp |-> HttpResponse(503), err |-> ErrSend],
      [resp |-> HttpResponse(200), err |-> Nil],
      [resp |-> HttpResponse(404), err |-> Nil] }

\* What handling a response gives: the error of an unexpected status, or
\* for a status of 200 a body that cannot be read or a result, which for a
\* list is a page with elements or not and with a next link or not.
RespondOutcomes(resp) ==
    IF Deref(resp).StatusCode # 200
    THEN {[err |-> ErrStatusCode, hasNextLink |-> FALSE, isEmpty |-> TRUE]}
    ELSE {[err |-> ErrUnmarshalJSON, hasNextLink |-> FALSE, isEmpty |-> TRUE]}
         \cup [err : {Nil}, hasNextLink : BOOLEAN, isEmpty : BOOLEAN]

\* The resource group names: the empty one, names of the pattern, names
\* with a character that is not of it, and names at and over the greatest
\* length.
ResourceGroupNames ==
    { <<>>,
      <<"g">>,
      <<"r", "g", "-", "1", "_", "(", "A", ")", ".">>,
      <<"r", "g", "/", "1">>,
      <<"r", "g", " ">>,
      <<"r", "g", "\n">>,
      <<"!">>,
      [i \in 1..90 |-> "g"],
      [i \in 1..91 |-> "g"],
      [i \in 1..91 |-> "!"] }

SubscriptionIDs == {<<>>, <<"s", "u", "b">>}

InitClient ==
    /\ Calling
    /\ \/ /\ op \in ClientOps
          /\ args \in [SubscriptionID : SubscriptionIDs, resourceGroupName : ResourceGroupNames]
       \/ /\ op = "ListComplete"
          /\ \E n \in 0..MaxListItems : \E model \in [1..n -> ConnectionItems] :
                \E transport \in ListTransports(Ptr(model)) \cup ListTransports(Nil) :
                    args = <<transport>>
       \/ /\ op = "ListCompleteMatchingPredicate"
          /\ \E n \in 0..MaxListItems : \E model \in [1..n -> ConnectionItems] :
                \E transport \in ListTransports(Ptr(model)) \cup ListTransports(Nil) :
                    \E predicate \in ConnectionPredicates :
                        args = <<transport, predicate>>

CallListComplete ==
    Returns("ListComplete", ListComplete(args[1]))

CallListCompleteMatchingPredicate ==
    Returns("ListCompleteMatchingPredicate", ListCompleteMatchingPredicate(args[1], args[2]))

\* A mutant of AfterFailure: the call goes on to the stage that follows.
AfterFailureGoesOn(following) == following

\* Where a call is after a stage that failed: the operation returns, the
\* stage that would follow is not run.
AfterFailure(following) == "return"

\* The call moves on to stage next with the result r.
Continues(next, r) ==
    /\ ret' = r
    /\ pc' = next
    /\ UNCHANGED <<op, args>>

\* An operation starts: validation.Validate, and the return of its error.
ClientValidate ==
    /\ pc = "call"
    /\ op \in ClientOps
    /\ LET operation == Operation(op)
           err == Validate(Validations(operation, args))
       IN  IF err # Nil
           THEN Continues("return",
                          ClientResult(<<>>, Nil,
                                       NewError(operation.packageType, operation.method, err), 0))
           ELSE Continues("prepare", ClientResult(<<>>, Nil, Nil, 0))

\* The Preparer of the operation.
ClientPrepare ==
    /\ pc = "prepare"
    /\ \E err \in {Nil, ErrPrepare} :
          IF err # Nil
          THEN Continues(AfterFailure("send"),
                         [ret EXCEPT !.trace = Append(@, "prepare"),
                                     !.err = NewErrorWithError(err, Operation(op).packageType,
                                                               Operation(op).method, Nil,
                                                               "Failure preparing request")])
          ELSE Continues("send", [ret EXCEPT !.trace = Append(@, "prepare")])

\* The Sender of the operation.  An operation that returns a future returns
\* it once the request is sent.
ClientSend ==
    /\ pc = "send"
    /\ \E outcome \in SendOutcomes :
          IF outcome.err # Nil
          THEN Continues(AfterFailure("respond"),
                         [ret EXCEPT !.trace = Append(@, "send"),
                                     !.Response = outcome.resp,
                                     !.err = NewErrorWithError(outcome.err, Operation(op).packageType,
                                                               Operation(op).method, outcome.resp,
                                                               "Failure sending request")])
          ELSE Continues(IF Operation(op).responds THEN "respond" ELSE "return",
                         [ret EXCEPT !.trace = Append(@, "send"), !.Response = outcome.resp])

\* The Responder of the operation.  A paged operation goes on to the next
\* page when the page it got is empty and has a link to a next one.
ClientRespond ==
    /\ pc = "respond"
    /\ \E outcome \in RespondOutcomes(ret.Response) :
          IF outcome.err # Nil
          THEN Continues(AfterFailure("return"),
                         [ret EXCEPT !.trace = Append(@, "respond"),
                                     !.err = NewErrorWithError(outcome.err, Operation(op).packageType,
                                                               Operation(op).method, ret.Response,
                                                               "Failure responding to request")])
          ELSE Continues(IF Operation(op).nextResults # "" /\ outcome.hasNextLink /\ outcome.isEmpty
                         THEN "next" ELSE "return",
                         [ret EXCEPT !.trace = Append(@, "respond")])

\* NextWithContext of a page: listByProfileNextResults or
\* listResourceUsageNextResults fetches the next page, and again while the
\* page fetched is empty and has a link to a next one.  The error of a
\* step is returned as the function wrapped it.
ClientNextResults ==
    /\ pc = "next"
    /\ ret.pages < MaxNextPages
    /\ LET nextResults == Operation(op).nextResults
           packageType == Operation(op).packageType
           fetched == [ret EXCEPT !.pages = @ + 1]
       IN  \/ Continues("return",
                 [fetched EXCEPT !.trace = Append(@, "prepare next"),
                                 !.err = NewErrorWithError(ErrPrepare, packageType, nextResults, Nil,
                                                           "Failure preparing next results request")])
           \/ \E outcome \in {o \in SendOutcomes : o.err # Nil} :
                 Continues("return",
                     [fetched EXCEPT !.trace = @ \o <<"prepare next", "send next">>,
                                     !.err = NewErrorWithError(outcome.err, packageType, nextResults,
                                                               outcome.resp,
                                                               "Failure sending next results request")])
           \/ \E sent \in {o \in SendOutcomes : o.err = Nil} :
                 \E outcome \in RespondOutcomes(sent.resp) :
                    IF outcome.err # Nil
                    THEN Continues("return",
                             [fetched EXCEPT !.trace = @ \o <<"prepare next", "send next", "respond next">>,
                                             !.Response = sent.resp,
                                             !.err = NewErrorWithError(outcome.err, packageType,
                                                                       nextResults, sent.resp,
                                                                       "Failure responding to next results request")])
                    ELSE /\ (outcome.hasNextLink /\ outcome.isEmpty) => fetched.pages < MaxNextPages
                         /\ Continues(IF outcome.hasNextLink /\ outcome.isEmpty THEN "next" ELSE "return",
                                [fetched EXCEPT !.trace = @ \o <<"prepare next", "send next", "respond next">>,
                                                !.Response = sent.resp])

NextClient ==
    \/ CallListComplete
    \/ CallListCompleteMatchingPredicate
    \/ ClientValidate
    \/ ClientPrepare
    \/ ClientSend
    \/ ClientRespond
    \/ ClientNextResults

SpecClient == InitClient /\ [][NextClient]_vars

-----------------------------------------------------------------------------
(***************************************************************************)
(* Claims about the API clients, checked under SpecClient.                 *)
(***************************************************************************)

\* No step of the List behind the call failed.
ListSucceeded == 
    /\ args[1].newRequestErr = Nil
    /\ args[1].executeErr = Nil
    /\ args[1].unmarshalErr = Nil

\* The elements of the model of the List response; none without a model.
ResponseModel == IF args[1].values # Nil THEN Deref(args[1].values) ELSE <<>>

\* C21: ListComplete returns every element of the model of the List
\* response in Items, in response order; ListCompleteMatchingPredicate
\* returns exactly the elements the predicate matches, in the same relative
\* order; for a response without a model Items is the empty list and there
\* is no error.
C21_ListComplete ==
    /\ (Returned("ListComplete") /\ ListSucceeded) =>
          /\ ret.err = Nil
          /\ ret.Items = ResponseModel
    /\ (Returned("ListCompleteMatchingPredicate") /\ ListSucceeded) =>
          /\ ret.err = Nil
          /\ ret.Items = SelectSeq(ResponseModel, LAMBDA v : Matches(args[2], v))

\* Three connections were listed, and the predicate kept the first and the
\* last of them, which differ.
C21_Witness ==
    /\ Returned("ListCompleteMatchingPredicate")
    /\ ListSucceeded
    /\ Len(ResponseModel) = 3
    /\ Len(ret.Items) = 2
    /\ ret.Items = <<ResponseModel[1], ResponseModel[3]>>
    /\ ResponseModel[1] # ResponseModel[3]
    /\ args[2].Name # Nil

\* WorkspaceAadAdminsClient.Get and RuleSetsClient.Get
GetOps == {"WorkspaceAadAdminsClient.Get", "RuleSetsClient.Get"}

\* The stages of a Get, in order.
GetStages == <<"prepare", "send", "respond">>

\* The message a failure of a stage is wrapped with.
StageMessage(stage) ==
    CASE stage = "prepare" -> "Failure preparing request"
      [] stage = "send"    -> "Failure sending request"
      [] stage = "respond" -> "Failure responding to request"

\* The errors a stage fails with.
StageErrors(stage) ==
    CASE stage = "prepare" -> {ErrPrepare}
      [] stage = "send"    -> {ErrSend}
      [] stage = "respond" -> {ErrStatusCode, ErrUnmarshalJSON}

\* The error of the step of List that failed.
ListError ==
    IF args[1].newRequestErr # Nil THEN args[1].newRequestErr
    ELSE IF args[1].executeErr # Nil THEN args[1].executeErr
    ELSE args[1].unmarshalErr

\* The error is one of a stage, not one of the validation.
StageFailed == ret.err # Nil /\ "Original" \in DOMAIN Deref(ret.err)

\* C22: in WorkspaceAadAdminsClient.Get and RuleSetsClient.Get the stages
\* run in the order prepare, send, respond; the failure of a stage is
\* returned wrapped with the client's name, the method's name and the
\* message of that stage, and no later stage runs; without a failure all
\* three stages have run.  ListCompleteMatchingPredicate returns a
\* "loading results" error that wraps the error of List, and no items,
\* when List fails.
C22_FailurePropagated ==
    /\ (op \in GetOps /\ pc # "call") =>
          /\ ret.trace = SubSeq(GetStages, 1, Len(ret.trace))
          /\ ret.err # Nil => pc = "return"
          /\ pc \in {"prepare", "send", "respond"} => pc = GetStages[Len(ret.trace) + 1]
          /\ (pc = "return" /\ StageFailed) =>
                LET failed == ret.trace[Len(ret.trace)]
                IN  /\ Deref(ret.err).PackageType = Operation(op).packageType
                    /\ Deref(ret.err).Method = "Get"
                    /\ Deref(ret.err).Message = StageMessage(failed)
                    /\ Deref(ret.err).Original \in StageErrors(failed)
          /\ (pc = "return" /\ ret.err = Nil) => ret.trace = GetStages
    /\ (Returned("ListCompleteMatchingPredicate") /\ ~ListSucceeded) =>
          /\ ret.err = Errorf("loading results: %+v", ListError)
          /\ ret.Items = <<>>

\* The request of a Get was prepared and sent, the response had a status
\* that the responder does not accept, and the call returned that failure.
C22_Witness ==
    /\ op = "RuleSetsClient.Get"
    /\ pc = "return"
    /\ StageFailed
    /\ ret.trace = GetStages
    /\ Deref(ret.err).Original = ErrStatusCode
    /\ Deref(ret.err).Message = "Failure responding to request"
    /\ Deref(ret.err).PackageType = "cdn.RuleSetsClient"

\* The parameters of a call break a rule: resourceGroupName is empty, longer
\* than 90 characters or not of the pattern, or the operation is one of the
\* synapse client and SubscriptionID is empty.
InvalidParameters ==
    \/ Len(args.resourceGroupName) = 0
    \/ Len(args.resourceGroupName) > 90
    \/ \E i \in DOMAIN args.resourceGroupName :
          ~ResourceGroupNameChar(args.resourceGroupName[i])
    \/ /\ Operation(op).packageType = "synapse.WorkspaceAadAdminsClient"
       /\ Len(args.SubscriptionID) = 0

\* The error is the validation error of the operation.
ValidationFailed ==
    /\ ret.err # Nil
    /\ "Validation" \in DOMAIN Deref(ret.err)
    /\ Deref(ret.err).PackageType = Operation(op).packageType
    /\ Deref(ret.err).Method = Operation(op).method

\* C24: for every public operation of WorkspaceAadAdminsClient and
\* RuleSetsClient, when resourceGroupName is empty, longer than 90
\* characters or not of the pattern (or, for the synapse client,
\* SubscriptionID is empty), the operation returns a validation error and
\* at no time prepares or sends a request.
C24_ValidationPrecedesRequest ==
    (op \in ClientOps /\ InvalidParameters) =>
        /\ pc \in {"call", "return"}
        /\ pc = "return" => (ValidationFailed /\ ret.trace = <<>> /\ ret.Response = Nil)

\* A list operation was called with a name of 91 characters of the pattern,
\* and returned the error of the length rule.
C24_Witness ==
    /\ op = "RuleSetsClient.ListByProfile"
    /\ pc = "return"
    /\ Len(args.resourceGroupName) = 91
    /\ MatchResourceGroupNamePattern(args.resourceGroupName)
    /\ ValidationFailed
    /\ Deref(ret.err).Validation.Constraint = "MaxLength"
    /\ ret.trace = <<>>

=============================================================================
